---- MODULE Spec2Model ----
(***************************************************************************)
(* Inventory valuation core of src/cogs/csfloat.py: the CSFloat listings   *)
(* client (request executor, exact and broad lookups, per-instance cache)  *)
(* and the sequential valuation loop that drives it.                       *)
(*                                                                         *)
(* Strings are modelled as sequences of one-character strings, so that     *)
(* strip(), lower(), the trailing-group pattern and string comparison are  *)
(* computed character by character.  Durations are in tenths of a second.  *)
(***************************************************************************)
EXTENDS Integers, Sequences, FiniteSets, TLC

\* ------------------------------------------------------------------------
\* Bounds of the model
\* ------------------------------------------------------------------------

\* lookups a caller issues directly on the client
MaxCalls == 3
\* page requests of one inventory fetch
MaxPages == 3
\* assets of a list handed to count_by_name
MaxAssets == 3
\* rows handed to write_csv
MaxRows == 2
MaxLookups == 2
\* distinct names of a count mapping
MaxItems == 2
\* largest quantity of one name
MaxQty == 3

\* ------------------------------------------------------------------------
\* Strings
\* ------------------------------------------------------------------------

Whitespace == {" "}

\* code points of the characters the names are built from
Ord(c) ==
    CASE c = " " -> 32
      [] c = "(" -> 40
      [] c = ")" -> 41
      [] c = "A" -> 65
      [] c = "B" -> 66
      [] c = "a" -> 97
      [] c = "b" -> 98
      [] c = "x" -> 120
      [] c = "y" -> 121
      [] OTHER   -> 124

\* str.lower on one character
LowerChar(c) ==
    CASE c = "A" -> "a"
      [] c = "B" -> "b"
      [] OTHER   -> c

\* str.lower
Lower(s) == [i \in 1..Len(s) |-> LowerChar(s[i])]

\* str.strip: leading and trailing whitespace removed
Strip(s) ==
    LET keep == {i \in 1..Len(s) : s[i] \notin Whitespace}
    IN  IF keep = {} THEN <<>>
        ELSE LET lo == CHOOSE i \in keep : \A j \in keep : i <= j
                 hi == CHOOSE i \in keep : \A j \in keep : j <= i
             IN  SubSeq(s, lo, hi)

\* a < b for Python strings: lexicographic by code point
StrLess(a, b) ==
    \E k \in 1..(Len(b)) :
        /\ \A j \in 1..(k - 1) : j <= Len(a) /\ a[j] = b[j]
        /\ k - 1 <= Len(a)
        /\ \/ k = Len(a) + 1
           \/ k <= Len(a) /\ Ord(a[k]) < Ord(b[k])

\* mutant of TailMatches: the tail  \s*\(.*\)$ , any character inside the group
TailMatchesAny(s, k) ==
    \E p \in (k + 1)..(Len(s) - 1) :
        /\ \A j \in (k + 1)..(p - 1) : s[j] \in Whitespace
        /\ s[p] = "("
        /\ s[Len(s)] = ")"

\* whether s[k+1..] matches  \s*\([^)]*\)$  (the tail of the pattern)
TailMatches(s, k) ==
    \E p \in (k + 1)..(Len(s) - 1) :
        /\ \A j \in (k + 1)..(p - 1) : s[j] \in Whitespace
        /\ s[p] = "("
        /\ s[Len(s)] = ")"
        /\ \A j \in (p + 1)..(Len(s) - 1) : s[j] # ")"

\* re.match(r"^(.*?)(?:\s*\([^)]*\))$", s): the lazy group 1 takes the
\* shortest prefix after which the tail matches
HasTrailingGroup(s) == \E k \in 0..Len(s) : TailMatches(s, k)

Group1(s) ==
    LET k == CHOOSE k \in 0..Len(s) :
                 /\ TailMatches(s, k)
                 /\ \A j \in 0..(k - 1) : ~TailMatches(s, j)
    IN  SubSeq(s, 1, k)

\* base = m.group(1).strip() if m else market_hash_name.strip()
BaseName(s) == IF HasTrailingGroup(s) THEN Strip(Group1(s)) ELSE Strip(s)

\* key = ("exact|" + market_hash_name).strip()
ExactKey(name) == Strip(<<"exact|">> \o name)

\* mutant of BroadKey: the broad slots share the tag of the exact ones
BroadKeyShared(base) == <<"exact|">> \o base

\* key = ("broad|" + base)
BroadKey(base) == <<"broad|">> \o base

\* ------------------------------------------------------------------------
\* Inputs: names, count mappings, responses of the pricing service
\* ------------------------------------------------------------------------

\* names a caller looks up: "A", "A (x)", "A " (trailing blank), "B (x)"
NamePool ==
    { <<"A">>,
      <<"A", " ", "(", "x", ")">>,
      <<"A", " ">>,
      <<"B", " ", "(", "x", ")">> }

\* entries data[0] of a listings response: price in cents and identifier
Listings == { [price |-> 0, id |-> "7"], [price |-> 999, id |-> "42"] }

\* decoded response bodies: [] (or empty text), a non-list JSON value, a list
\* whose first entry lacks "price"/"id", a list whose first entry is a listing
Bodies ==
    { [kind |-> "empty"], [kind |-> "nonlist"], [kind |-> "malformed"] }
    \cup { [kind |-> "list", price |-> l.price, id |-> l.id] : l \in Listings }

\* what one HTTP attempt can end in; status 0 stands for "sess.get raised"
\* (timeout, connection error), so there is no response object
Responses ==
    { [status |-> s, body |-> [kind |-> "empty"]] : s \in {0, 401, 403, 429, 500} }
    \cup { [status |-> 200, body |-> b] : b \in Bodies }

\* Optional[Tuple[int, str, str]]
None == [tag |-> "none"]
Quote(cents, id, url) == [tag |-> "quote", cents |-> cents, id |-> id, url |-> url]

\* ------------------------------------------------------------------------
\* State
\* ------------------------------------------------------------------------

VARIABLES
    cache,        \* CSFloatClient.cache: lookup key -> None or Quote
    lpc,          \* position of the running lookup: "idle" or "get" (inside _get)
    cur,          \* frame of the running lookup: mode, argument, key, query
    attempt,      \* loop variable of _get
    last_exc,     \* last_exc of _get
    wire,         \* history: the answer to each HTTP request of the current (or last) lookup
    gets,         \* _get invocations of the current (or last) lookup
    sleeps,       \* time.sleep calls of the current (or last) lookup, in order
    ret,          \* how the last lookup ended
    ncalls,       \* lookups issued directly by a caller so far
    firstRet,     \* history: (mode, name) -> value its first returned call gave
    filled,       \* history: (instance, key) of the lookups that returned
    trace,        \* history: events of the lookups in order, kept while tracing
    cstate,       \* CSFloatClient(...): "none", "ok" (constructed), "raised"
    capikey,      \* history: the api_key the constructor was given
    ckey,         \* self.key
    self,         \* the instance whose methods run: 1 or 2
    shelved,      \* self.cache of the other instance
    tracing,      \* whether trace is kept
    vpc,          \* position of sequential_value: "none", "exact", "broad", "done"
    counts,       \* its argument: insertion-ordered sequence of (name, qty)
    order,        \* sorted(counts.keys(), key=str.lower)
    idx,          \* index of the name being priced
    rows,         \* rows
    total_cents,  \* total_cents
    vlog,         \* history: lookups invoked by this run, in order
    vret,         \* how sequential_value ended
    stdout,       \* lines sequential_value has printed
    fpc,          \* position of fetch_full_inventory: "idle", "send", "wait", "done"
    start,        \* start
    params,       \* params["start_assetid"] (None while the key is absent)
    fassets,      \* assets
    freqs,        \* history: the start_assetid each request carried
    fresps,       \* history: the responses, in order
    fret,         \* how fetch_full_inventory ended
    apc,          \* position of count_by_name: "idle", "called", "done"
    aggAssets,    \* its argument assets, a list the caller still holds
    aggInclude,   \* its argument include_unmarketable
    aggGiven,     \* history: the list as it was when count_by_name was called
    agg,          \* its result: name -> count
    wpc,          \* position of write_csv: "idle", "called", "done"
    csvRows,      \* its argument rows
    csvTotal,     \* its argument grand_cents
    csvRecs,      \* the lists handed to w.writerow, values as str() gives them
    csvLines,     \* the lines of the file, without their line terminator
    mpc,          \* position of main: "idle", "run", "exited"
    margs,        \* args and environment of the process
    token,        \* token
    mexit,        \* exit code of the process and the exception behind it
    tshared,      \* whether the two concurrent callers were given the same client
    tcache,       \* self.cache of client 1 and of client 2
    tpc,          \* position of each caller's lookup: "idle" or "get"
    tcur,         \* frame of each caller's lookup: name, key, query, attempt
    tdone,        \* lookups each caller has finished
    tlog,         \* history: the cache writes, in order
    hstatus,      \* _health["status"]
    hcogs,        \* _health["cogs_loaded"]
    hlatency,     \* _health["latency_ms"]: None or an int
    hpc,          \* position of on_ready: "idle", "112", "113", "114", "presence"
    hlast,        \* history: the last lifecycle event that was dispatched
    hraised,      \* history: whether an on_ready ended by an exception
    hresp         \* history: the last answer of the health server

clientVars == <<cache, lpc, cur, attempt, last_exc, wire, gets, sleeps, ret, ncalls, firstRet,
                filled, trace>>
instVars == <<cstate, capikey, ckey, self, shelved, tracing>>
valueVars == <<vpc, counts, order, idx, rows, total_cents, vlog, vret, stdout>>
fetchVars == <<fpc, start, params, fassets, freqs, fresps, fret>>
aggVars == <<apc, aggAssets, aggInclude, aggGiven, agg>>
csvVars == <<wpc, csvRows, csvTotal, csvRecs, csvLines>>
mainVars == <<mpc, margs, token, mexit>>
threadVars == <<tshared, tcache, tpc, tcur, tdone, tlog>>
healthVars == <<hstatus, hcogs, hlatency, hpc, hlast, hraised, hresp>>
vars == <<cache, lpc, cur, attempt, last_exc, wire, gets, sleeps, ret, ncalls, firstRet,
          filled, trace, cstate, capikey, ckey, self, shelved, tracing,
          vpc, counts, order, idx, rows, total_cents, vlog, vret, stdout,
          fpc, start, params, fassets, freqs, fresps, fret,
          apc, aggAssets, aggInclude, aggGiven, agg,
          wpc, csvRows, csvTotal, csvRecs, csvLines,
          mpc, margs, token, mexit,
          tshared, tcache, tpc, tcur, tdone, tlog,
          hstatus, hcogs, hlatency, hpc, hlast, hraised, hresp>>

\* what the steps of one component leave alone
outsidePricing == <<instVars, fetchVars, aggVars, csvVars, mainVars, threadVars, healthVars>>
outsideFetch == <<clientVars, instVars, valueVars, aggVars, csvVars, mainVars, threadVars, healthVars>>
outsideAggregate == <<clientVars, instVars, valueVars, fetchVars, csvVars, mainVars, threadVars, healthVars>>
outsideCsv == <<clientVars, instVars, valueVars, fetchVars, aggVars, mainVars, threadVars, healthVars>>
outsideMain == <<clientVars, instVars, valueVars, fetchVars, aggVars, csvVars, threadVars, healthVars>>
outsideThreads == <<clientVars, instVars, valueVars, fetchVars, aggVars, csvVars, mainVars,
                    healthVars>>
outsideHealth == <<clientVars, instVars, valueVars, fetchVars, aggVars, csvVars, mainVars,
                   threadVars>>

NoFrame == [mode |-> "none", name |-> <<>>, key |-> <<>>, query |-> <<>>]
NoRet == [kind |-> "none"]

\* a credential the constructor accepts and stores as it is
ValidKey == <<"k", "e", "y", "-", "0", "0", "0", "1">>

\* args and environment before main reads them
NoArgs == [key |-> <<>>, CSFLOAT_API_KEY |-> <<>>, FLOAT_TOKEN |-> <<>>,
           include_unmarketable |-> FALSE]

\* Counter() before any c[n] += 1
EmptyCounter == [k \in {} |-> 0]

\* nothing is running: no lookup, no valuation, no fetch, no aggregation
InitRest ==
    /\ cache = <<>>
    /\ lpc = "idle"
    /\ cur = NoFrame
    /\ attempt = 0
    /\ last_exc = "None"
    /\ wire = <<>>
    /\ gets = 0
    /\ sleeps = <<>>
    /\ ret = NoRet
    /\ ncalls = 0
    /\ firstRet = <<>>
    /\ filled = {}
    /\ trace = <<>>
    /\ vpc = "none"
    /\ counts = <<>>
    /\ order = <<>>
    /\ idx = 0
    /\ rows = <<>>
    /\ total_cents = 0
    /\ vlog = <<>>
    /\ vret = NoRet
    /\ stdout = <<>>
    /\ fpc = "idle"
    /\ start = None
    /\ params = None
    /\ fassets = <<>>
    /\ freqs = <<>>
    /\ fresps = <<>>
    /\ fret = NoRet
    /\ apc = "idle"
    /\ aggAssets = <<>>
    /\ aggInclude = FALSE
    /\ aggGiven = <<>>
    /\ agg = EmptyCounter
    /\ wpc = "idle"
    /\ csvRows = <<>>
    /\ csvTotal = 0
    /\ csvRecs = <<>>
    /\ csvLines = <<>>
    /\ mpc = "idle"
    /\ margs = NoArgs
    /\ token = <<>>
    /\ mexit = NoRet
    /\ tshared = FALSE
    /\ tcache = [c \in 1..2 |-> <<>>]
    /\ tpc = [t \in 1..2 |-> "idle"]
    /\ tcur = [t \in 1..2 |-> [mode |-> "exact", name |-> <<>>, key |-> <<"exact|">>,
                                query |-> <<>>, attempt |-> 0]]
    /\ tdone = [t \in 1..2 |-> 0]
    /\ tlog = <<>>
    /\ hstatus = "starting"
    /\ hcogs = 0
    /\ hlatency = None
    /\ hpc = "idle"
    /\ hlast = "none"
    /\ hraised = FALSE
    /\ hresp = NoRet

\* CSFloatClient.__init__ has run with a valid key: the cache is empty
Init ==
    /\ InitRest
    /\ cstate = "ok"
    /\ capikey = ValidKey
    /\ ckey = ValidKey
    /\ self = 1
    /\ shelved = <<>>
    /\ tracing = FALSE

\* ------------------------------------------------------------------------
\* CSFloatClient._get: one pass of the loop body per HTTP request
\* ------------------------------------------------------------------------

\* mutants of MaxAttempts: one pass too many, one pass too few
MaxAttemptsThree == 2 + 1
MaxAttemptsOne == 2 - 1

\* for attempt in range(2)
MaxAttempts == 2

\* DEFAULT_SLEEP = 0.5, the value of self.sleep
DEFAULT_SLEEP == 5

\* mutant of BackoffDelay: the except clause retries without waiting
BackoffDelayNone(a) == 0

\* mutant of RateLimitDelay: the 429 branch sleeps on the generic curve
RateLimitDelayGeneric(a) == 6 * (a + 1)

\* time.sleep(1.2 * (attempt + 1)) after a 429
RateLimitDelay(a) == 12 * (a + 1)

\* time.sleep(0.6 * (attempt + 1)) in the except clause
BackoffDelay(a) == 6 * (a + 1)

\* What the try block does with one attempt.  sess.get may raise; 401/403
\* raise PermissionError inside the try, which the "except Exception" clause
\* of the same try catches like any other exception; 429 continues the loop;
\* raise_for_status raises HTTPError for the other statuses >= 400.
Classify(resp) ==
    CASE resp.status = 0            -> [kind |-> "except", exc |-> "Timeout"]
      [] resp.status \in {401, 403} -> [kind |-> "except", exc |-> "PermissionError"]
      [] resp.status = 429          -> [kind |-> "ratelimit", exc |-> "None"]
      [] resp.status >= 400         -> [kind |-> "except", exc |-> "HTTPError"]
      [] OTHER                      -> [kind |-> "return", exc |-> "None"]

\* outcomes of a lookup
Returned(v) == [kind |-> "return", val |-> v, exc |-> "None", cause |-> "None"]
Raised(e, cause) == [kind |-> "raise", val |-> None, exc |-> e, cause |-> cause]

\* mutants of CacheHit: "if self.cache.get(key)" (a cached None is no hit),
\* and a lookup that never consults the cache
CacheHitTruthy(c, key) == key \in DOMAIN c /\ c[key] # [tag |-> "none"]
CacheHitNever(c, key) == FALSE

\* if key in self.cache
CacheHit(c, key) == key \in DOMAIN c

\* self.cache[key] = v
CachePut(c, key, v) == [k \in (DOMAIN c) \cup {key} |-> IF k = key THEN v ELSE c[k]]

\* mutant of CacheOnRaise: a lookup that raises stores None under its key
CacheOnRaiseNone(c, key) == CachePut(c, key, [tag |-> "none"])

\* self.cache when an exception leaves a lookup: the assignments to
\* self.cache[key] come after the statements that raise
CacheOnRaise(c, key) == c

\* ------------------------------------------------------------------------
\* sequential_value: what the loop body does once a lookup has ended
\* ------------------------------------------------------------------------

Some(n) == [tag |-> "some", v |-> n]

\* counts[name]
Qty(c, name) == (CHOOSE e \in {c[i] : i \in 1..Len(c)} : e.name = name).qty

\* mutant of NeedBroad: the broad lookup runs whatever the exact one gave
NeedBroadAlways(exact) == TRUE

\* if exact is None: broad = cf.lowest_listing_broad(name)
NeedBroad(exact) == exact = None

\* subtotal_cents = unit_cents * qty
Subtotal(unit, qty) == unit * qty

\* mutant of Priced: "priced": bool(unit_cents), false for a price of 0
PricedTruthy(unit_cents) == unit_cents # [tag |-> "none"] /\ unit_cents.v # 0

\* "priced": unit_cents is not None
Priced(unit_cents) == unit_cents # None

\* mutant of AddTotal: total_cents = subtotal_cents
AddTotalOverwrite(total, subtotal) == subtotal

\* total_cents += subtotal_cents
AddTotal(total, subtotal) == total + subtotal

\* lines 175-199: the row of one name, from the quote used (or None)
MakeRow(name, qty, used, used_mode) ==
    LET unit_cents == IF used = None THEN None ELSE Some(used.cents)
        subtotal   == IF used = None THEN 0 ELSE Subtotal(used.cents, qty)
    IN  [ name           |-> name,
          qty            |-> qty,
          unit_cents     |-> unit_cents,
          subtotal_cents |-> subtotal,
          priced         |-> Priced(unit_cents),
          mode           |-> used_mode,
          listing_id     |-> IF used = None THEN "" ELSE used.id,
          url            |-> IF used = None THEN <<>> ELSE used.url ]

\* mutant of SortedNames: sorted(counts.keys()), the key function left out
SortedNamesCaseSensitive(c) ==
    LET n == Len(c)
        key(i) == c[i].name
        rank(i) == 1 + Cardinality({ j \in 1..n :
                        \/ StrLess(key(j), key(i))
                        \/ key(j) = key(i) /\ j < i })
    IN  [r \in 1..n |-> c[CHOOSE i \in 1..n : rank(i) = r].name]

\* sorted(counts.keys(), key=str.lower): a stable sort of the keys in
\* insertion order; the name at position i moves behind every name with a
\* smaller key and behind the earlier names with an equal key
SortedNames(c) ==
    LET n == Len(c)
        key(i) == Lower(c[i].name)
        rank(i) == 1 + Cardinality({ j \in 1..n :
                        \/ StrLess(key(j), key(i))
                        \/ key(j) = key(i) /\ j < i })
    IN  [r \in 1..n |-> c[CHOOSE i \in 1..n : rank(i) = r].name]

\* mutant of UsedMode: the row is labelled with the last lookup attempted
UsedModeAttempted(pos, val) == pos

\* used_mode: "exact", and "broad" once the broad lookup gave a quote
UsedMode(pos, val) == IF pos = "broad" /\ val # None THEN "broad" ELSE "exact"

\* lines 156-157, 183-188 and 201-202: what sequential_value prints
HeaderLines == << [line |-> "header"], [line |-> "rule"] >>
RowLines(row) ==
    << [line |-> "row", name |-> row.name, qty |-> row.qty,
        unit_cents |-> row.unit_cents, subtotal_cents |-> row.subtotal_cents],
       [line |-> "source", mode |-> row.mode, listing_id |-> row.listing_id] >>
TotalLines(total) == << [line |-> "rule"], [line |-> "total", total_cents |-> total] >>

\* The state of sequential_value after the lookup it was waiting for ended
\* with `out`: an exception leaves the function; an exact None goes on to the
\* broad lookup; otherwise the row is appended and the loop moves on.
ValueAfter(out) ==
    LET name == order[idx]
        log2 == Append(vlog, [mode |-> vpc, name |-> name, kind |-> out.kind, val |-> out.val])
        same == [vpc |-> vpc, idx |-> idx, rows |-> rows, total_cents |-> total_cents,
                 vlog |-> log2, vret |-> vret, stdout |-> stdout]
    IN  IF out.kind = "raise"
        THEN [same EXCEPT !.vpc = "done",
                          !.vret = [kind |-> "raise", exc |-> out.exc, cause |-> out.cause,
                                    total |-> 0, rows |-> <<>>]]
        ELSE IF vpc = "exact" /\ NeedBroad(out.val)
        THEN [same EXCEPT !.vpc = "broad"]
        ELSE LET used      == out.val
                 used_mode == UsedMode(vpc, out.val)
                 row       == MakeRow(name, Qty(counts, name), used, used_mode)
                 rows2     == Append(rows, row)
                 total2    == IF used = None THEN total_cents
                              ELSE AddTotal(total_cents, row.subtotal_cents)
             IN  IF idx = Len(order)
                 THEN [same EXCEPT !.vpc = "done", !.rows = rows2, !.total_cents = total2,
                                   !.vret = [kind |-> "return", exc |-> "None", cause |-> "None",
                                             total |-> total2, rows |-> rows2],
                                   !.stdout = stdout \o RowLines(row) \o TotalLines(total2)]
                 ELSE [same EXCEPT !.vpc = "exact", !.idx = idx + 1, !.rows = rows2,
                                   !.total_cents = total2,
                                   !.stdout = stdout \o RowLines(row)]

\* ------------------------------------------------------------------------
\* Lookups
\* ------------------------------------------------------------------------

\* events of a lookup, in the order the code produces them
EvGet(mode, name, query) == [e |-> "get", mode |-> mode, name |-> name, query |-> query]
EvSend(query, a) == [e |-> "send", query |-> query, attempt |-> a, auth |-> ckey]
EvRecv(resp) == [e |-> "recv", status |-> resp.status, body |-> resp.body.kind]
EvSleep(kind, dur) == [e |-> "sleep", kind |-> kind, dur |-> dur]
EvWrite(key) == [e |-> "write", key |-> key]
EvEnd(mode, name, kind, hit) ==
    [e |-> "end", mode |-> mode, name |-> name, kind |-> kind, hit |-> hit]

\* the trace with evs appended, while it is kept
Tr(evs) == IF tracing THEN trace \o evs ELSE trace

\* The lookup `mode`(name) ends with `out`: control returns to its caller,
\* which is sequential_value when a valuation is running.  The log of the
\* lookup (w, s) stays readable after a lookup a caller issued directly;
\* sequential_value keeps the outcome only (vlog).
Finish(mode, name, out, hit, w, s) ==
    /\ wire' = (IF vpc \in {"exact", "broad"} THEN <<>> ELSE w)
    /\ sleeps' = (IF vpc \in {"exact", "broad"} THEN <<>> ELSE s)
    /\ lpc' = "idle"
    /\ cur' = NoFrame
    /\ attempt' = 0
    /\ last_exc' = "None"
    /\ ret' = [kind |-> out.kind, mode |-> mode, name |-> name, val |-> out.val,
               exc |-> out.exc, cause |-> out.cause, hit |-> hit,
               repeat |-> <<mode, name>> \in DOMAIN firstRet]
    /\ firstRet' = IF out.kind = "return" /\ <<mode, name>> \notin DOMAIN firstRet
                   THEN CachePut(firstRet, <<mode, name>>, out.val)
                   ELSE firstRet
    /\ filled' = IF out.kind = "return" /\ ~hit
                 THEN filled \cup { <<self, IF mode = "exact" THEN ExactKey(name)
                                            ELSE BroadKey(BaseName(name))>> }
                 ELSE filled
    /\ IF vpc \in {"exact", "broad"}
       THEN LET nv == ValueAfter(out)
            IN  /\ vpc' = nv.vpc
                /\ idx' = nv.idx
                /\ rows' = nv.rows
                /\ total_cents' = nv.total_cents
                /\ vlog' = nv.vlog
                /\ vret' = nv.vret
                /\ stdout' = nv.stdout
                /\ UNCHANGED <<counts, order>>
       ELSE UNCHANGED valueVars

\* data, final_url = self._get(params): the lookup enters the request loop
EnterGet(mode, name, key, query) ==
    /\ lpc' = "get"
    /\ cur' = [mode |-> mode, name |-> name, key |-> key, query |-> query]
    /\ attempt' = 0
    /\ last_exc' = "None"
    /\ gets' = 1
    /\ wire' = <<>>
    /\ sleeps' = <<>>
    /\ trace' = Tr(<<EvGet(mode, name, query)>>)
    /\ UNCHANGED <<cache, ret, firstRet, filled, valueVars>>

\* lowest_listing_exact up to the call of _get
lowest_listing_exact(name) ==
    LET key == ExactKey(name)
    IN  IF CacheHit(cache, key)
        THEN /\ gets' = 0
             /\ UNCHANGED cache
             /\ trace' = Tr(<<EvEnd("exact", name, "return", TRUE)>>)
             /\ Finish("exact", name, Returned(cache[key]), TRUE, <<>>, <<>>)
        ELSE EnterGet("exact", name, key, name)

\* lowest_listing_broad up to the call of _get
lowest_listing_broad(name) ==
    LET base == BaseName(name)
        key  == BroadKey(base)
    IN  IF CacheHit(cache, key)
        THEN /\ gets' = 0
             /\ UNCHANGED cache
             /\ trace' = Tr(<<EvEnd("broad", name, "return", TRUE)>>)
             /\ Finish("broad", name, Returned(cache[key]), TRUE, <<>>, <<>>)
        ELSE IF base = name
        THEN /\ gets' = 0
             /\ cache' = CachePut(cache, key, None)
             /\ trace' = Tr(<<EvWrite(key), EvEnd("broad", name, "return", FALSE)>>)
             /\ Finish("broad", name, Returned(None), FALSE, <<>>, <<>>)
        ELSE EnterGet("broad", name, key, base)

\* mutant of PoliteSleep: the sleep after _get left out
PoliteSleepNone(s) == s

\* time.sleep(self.sleep)
PoliteSleep(s) == Append(s, <<"polite", DEFAULT_SLEEP>>)

\* mutant of IsNoListing: "if not data", the isinstance test left out
IsNoListingEmptyOnly(body) == body.kind = "empty"

\* if not isinstance(data, list) or not data
IsNoListing(body) == body.kind \in {"empty", "nonlist"}

\* The rest of a lookup once _get has returned `body`: the politeness sleep,
\* then the cache write and the return (or the exception of data[0]["price"]
\* on data without such an entry).
LookupTail(body, w) ==
    LET s == PoliteSleep(sleeps)
        t == <<EvSend(cur.query, attempt), EvRecv(w[Len(w)])>>
             \o [i \in 1..(Len(s) - Len(sleeps)) |->
                    EvSleep(s[Len(sleeps) + i][1], s[Len(sleeps) + i][2])]
    IN  CASE IsNoListing(body) ->
              /\ cache' = CachePut(cache, cur.key, None)
              /\ trace' = Tr(t \o <<EvWrite(cur.key),
                                     EvEnd(cur.mode, cur.name, "return", FALSE)>>)
              /\ Finish(cur.mode, cur.name, Returned(None), FALSE, w, s)
          [] body.kind = "list" ->
              LET q == Quote(body.price, body.id, cur.query)
              IN  /\ cache' = CachePut(cache, cur.key, q)
                  /\ trace' = Tr(t \o <<EvWrite(cur.key),
                                         EvEnd(cur.mode, cur.name, "return", FALSE)>>)
                  /\ Finish(cur.mode, cur.name, Returned(q), FALSE, w, s)
          [] OTHER ->
              /\ cache' = CacheOnRaise(cache, cur.key)
              /\ trace' = Tr(t \o <<EvEnd(cur.mode, cur.name, "raise", FALSE)>>)
              /\ Finish(cur.mode, cur.name, Raised("KeyError", "None"), FALSE, w, s)

\* the end of one pass of the loop that did not return: the next pass, or
\* "raise RuntimeError" after the last one
NextAttempt(exc, w, s) ==
    LET t == <<EvSend(cur.query, attempt), EvRecv(w[Len(w)]),
               EvSleep(s[Len(s)][1], s[Len(s)][2])>>
    IN  IF attempt + 1 < MaxAttempts
        THEN /\ attempt' = attempt + 1
             /\ last_exc' = exc
             /\ wire' = w
             /\ sleeps' = s
             /\ trace' = Tr(t)
             /\ UNCHANGED <<lpc, cur, cache, ret, firstRet, filled, valueVars>>
        ELSE /\ cache' = CacheOnRaise(cache, cur.key)
             /\ trace' = Tr(t \o <<EvEnd(cur.mode, cur.name, "raise", FALSE)>>)
             /\ Finish(cur.mode, cur.name, Raised("RuntimeError", exc), FALSE, w, s)

\* one HTTP request of _get, answered with resp
Get(resp) ==
    /\ lpc = "get"
    /\ UNCHANGED <<gets, ncalls>>
    /\ UNCHANGED outsidePricing
    /\ LET c == Classify(resp)
           w == Append(wire, resp)
       IN  CASE c.kind = "return" -> LookupTail(resp.body, w)
             [] c.kind = "ratelimit" ->
                  NextAttempt(last_exc, w,
                              Append(sleeps, <<"ratelimit", RateLimitDelay(attempt)>>))
             [] OTHER ->
                  NextAttempt(c.exc, w,
                              Append(sleeps, <<"backoff", BackoffDelay(attempt)>>))

\* a caller invokes cf.lowest_listing_exact(name) on the client
CallExact(name) ==
    /\ cstate = "ok"
    /\ lpc = "idle"
    /\ vpc = "none"
    /\ ncalls < MaxCalls
    /\ ncalls' = ncalls + 1
    /\ UNCHANGED outsidePricing
    /\ lowest_listing_exact(name)

\* a caller invokes cf.lowest_listing_broad(name) on the client
CallBroad(name) ==
    /\ cstate = "ok"
    /\ lpc = "idle"
    /\ vpc = "none"
    /\ ncalls < MaxCalls
    /\ ncalls' = ncalls + 1
    /\ UNCHANGED outsidePricing
    /\ lowest_listing_broad(name)

\* ------------------------------------------------------------------------
\* sequential_value
\* ------------------------------------------------------------------------

\* names of the count mappings: "A", "a", "A (x)"
ValuePool == { <<"A">>, <<"a">>, <<"A", " ", "(", "x", ")">> }

\* count mappings: insertion-ordered, distinct names, quantities >= 1
CountMappings ==
    UNION { { c \in [1..n -> [name : ValuePool, qty : 1..MaxQty]] :
                \A i, j \in 1..n : i # j => c[i].name # c[j].name } : n \in 0..MaxItems }

\* mutant of EmptyValuation: nothing is returned for an empty mapping
EmptyValuationNone == NoRet

\* return 0, []
EmptyValuation ==
    [kind |-> "return", exc |-> "None", cause |-> "None", total |-> 0, rows |-> <<>>]

\* sequential_value(counts, cf) up to its first lookup
ValueStart(c) ==
    /\ lpc = "idle"
    /\ vpc = "none"
    /\ counts' = c
    /\ vlog' = <<>>
    /\ rows' = <<>>
    /\ total_cents' = 0
    /\ stdout' = (IF c = <<>> THEN << [line |-> "empty"] >> ELSE HeaderLines)
    /\ IF c = <<>>
       THEN /\ vpc' = "done"
            /\ order' = <<>>
            /\ idx' = 0
            /\ vret' = EmptyValuation
       ELSE /\ vpc' = "exact"
            /\ order' = SortedNames(c)
            /\ idx' = 1
            /\ vret' = NoRet
    /\ UNCHANGED clientVars
    /\ UNCHANGED outsidePricing

\* exact = cf.lowest_listing_exact(name)
ValueExact ==
    /\ lpc = "idle"
    /\ vpc = "exact"
    /\ UNCHANGED ncalls
    /\ UNCHANGED outsidePricing
    /\ lowest_listing_exact(order[idx])

\* broad = cf.lowest_listing_broad(name)
ValueBroad ==
    /\ lpc = "idle"
    /\ vpc = "broad"
    /\ UNCHANGED ncalls
    /\ UNCHANGED outsidePricing
    /\ lowest_listing_broad(order[idx])

\* the client under lookups its caller issues directly
Next ==
    \/ \E name \in NamePool : CallExact(name)
    \/ \E name \in NamePool : CallBroad(name)
    \/ \E resp \in Responses : Get(resp)

Spec == Init /\ [][Next]_vars

\* one valuation run on a freshly constructed client, as main() runs it
NextValue ==
    \/ \E c \in CountMappings : ValueStart(c)
    \/ ValueExact
    \/ ValueBroad
    \/ \E resp \in Responses : Get(resp)

SpecValue == Init /\ [][NextValue]_vars

\* count mappings handed to a client that has been used: none, or one "A"
UsedMappings == { <<>>, << [name |-> <<"A">>, qty |-> 1] >> }

\* lookups a caller issues directly, then one valuation run on that client
NextUsed ==
    \/ \E name \in {<<"A">>, <<"A", " ", "(", "x", ")">>} : CallExact(name)
    \/ \E name \in {<<"A">>, <<"A", " ", "(", "x", ")">>} : CallBroad(name)
    \/ \E c \in UsedMappings : ValueStart(c)
    \/ ValueExact
    \/ ValueBroad
    \/ \E resp \in Responses : Get(resp)

SpecUsed == Init /\ [][NextUsed]_vars

\* names with two trailing groups, one, one that is not at the end, a nested one
SeqNames ==
    [ two    |-> <<"A", " ", "(", "x", ")", " ", "(", "y", ")">>,
      x      |-> <<"A", " ", "(", "x", ")">>,
      y      |-> <<"A", " ", "(", "y", ")">>,
      front  |-> <<"(", "x", ")", " ", "A">>,
      nested |-> <<"A", " ", "(", "(", "x", ")", ")">> ]

\* count mappings of the traced runs
SeqMappings ==
    { << [name |-> SeqNames.y, qty |-> 1], [name |-> SeqNames.x, qty |-> 1],
         [name |-> SeqNames.two, qty |-> 1] >>,
      << [name |-> SeqNames.nested, qty |-> 2], [name |-> SeqNames.front, qty |-> 1] >> }

\* answers of the pricing service in the traced runs
SeqResponses ==
    { r \in Responses :
        \/ r.status \in {429, 500}
        \/ r.status = 200 /\ r.body.kind = "empty"
        \/ r.status = 200 /\ r.body.kind = "list" /\ r.body.price = 999 }

\* as Init, the events of the lookups being recorded
InitSeq ==
    /\ InitRest
    /\ cstate = "ok"
    /\ capikey = ValidKey
    /\ ckey = ValidKey
    /\ self = 1
    /\ shelved = <<>>
    /\ tracing = TRUE

\* one valuation run, event by event
NextSeq ==
    \/ \E c \in SeqMappings : ValueStart(c)
    \/ ValueExact
    \/ ValueBroad
    \/ \E resp \in SeqResponses : Get(resp)

SpecSeq == InitSeq /\ [][NextSeq]_vars

\* names of the traced direct lookups: "A" and "A (x)", whose base is "A"
HistNames == { <<"A">>, <<"A", " ", "(", "x", ")">> }

\* answers of the pricing service to them: a server error, no listing, a
\* first entry without a price, a listing
HistResponses ==
    { r \in Responses :
        \/ r.status = 500
        \/ r.status = 200 /\ r.body.kind \in {"empty", "malformed"}
        \/ r.status = 200 /\ r.body.kind = "list" /\ r.body.price = 999 }

\* the client under direct lookups, event by event
NextHist ==
    \/ \E name \in HistNames : CallExact(name)
    \/ \E name \in HistNames : CallBroad(name)
    \/ \E resp \in HistResponses : Get(resp)

SpecHist == InitSeq /\ [][NextHist]_vars

\* the client under direct lookups of those names, every answer possible
NextGet ==
    \/ \E name \in HistNames : CallExact(name)
    \/ \E name \in HistNames : CallBroad(name)
    \/ \E resp \in Responses : Get(resp)

\* sess.get has a timeout, so each request is answered or raises
SpecGet == Init /\ [][NextGet]_vars /\ WF_vars(\E resp \in Responses : Get(resp))

\* ------------------------------------------------------------------------
\* CSFloatClient.__init__ and instances
\* ------------------------------------------------------------------------

\* len(api_key.strip()) < 8
MinKeyLen == 8

\* "Bearer "
BearerPrefix == <<"B", "e", "a", "r", "e", "r", " ">>

\* s.replace("Bearer ", ""): every occurrence removed, left to right
RECURSIVE RemoveBearer(_)
RemoveBearer(s) ==
    IF s = <<>> THEN <<>>
    ELSE IF Len(s) >= Len(BearerPrefix) /\ SubSeq(s, 1, Len(BearerPrefix)) = BearerPrefix
    THEN RemoveBearer(SubSeq(s, Len(BearerPrefix) + 1, Len(s)))
    ELSE <<Head(s)>> \o RemoveBearer(Tail(s))

\* mutant of KeyRejected: the length is taken before trimming
KeyRejectedRaw(api_key) == api_key = <<>> \/ Len(api_key) < MinKeyLen

\* if not api_key or len(api_key.strip()) < 8
KeyRejected(api_key) == api_key = <<>> \/ Len(Strip(api_key)) < MinKeyLen

\* credentials: none, 7 characters, 8 of which one is padding, 8 blanks,
\* 8 characters, 8 characters between blanks, "Bearer x"
KeyPool ==
    { <<>>,
      <<"1", "2", "3", "4", "5", "6", "7">>,
      <<" ", "1", "2", "3", "4", "5", "6", "7">>,
      <<" ", " ", " ", " ", " ", " ", " ", " ">>,
      <<"1", "2", "3", "4", "5", "6", "7", "8">>,
      <<" ", "1", "2", "3", "4", "5", "6", "7", "8", " ">>,
      <<"B", "e", "a", "r", "e", "r", " ", "x">> }

\* CSFloatClient(api_key): ValueError, or an instance with its key and an
\* empty cache
Construct(api_key) ==
    /\ cstate = "none"
    /\ capikey' = api_key
    /\ IF KeyRejected(api_key)
       THEN /\ cstate' = "raised"
            /\ UNCHANGED <<ckey, cache>>
       ELSE /\ cstate' = "ok"
            /\ ckey' = RemoveBearer(Strip(api_key))
            /\ cache' = <<>>
    /\ UNCHANGED <<lpc, cur, attempt, last_exc, wire, gets, sleeps, ret, ncalls, firstRet,
                   filled, trace>>
    /\ UNCHANGED <<self, shelved, tracing>>
    /\ UNCHANGED <<valueVars, fetchVars, aggVars, csvVars, mainVars, threadVars, healthVars>>

\* before CSFloatClient(...) is called
InitNew ==
    /\ InitRest
    /\ cstate = "none"
    /\ capikey = <<>>
    /\ ckey = <<>>
    /\ self = 1
    /\ shelved = <<>>
    /\ tracing = FALSE

\* a client is constructed, then asked for the exact price of "A"
NextClient ==
    \/ \E api_key \in KeyPool : Construct(api_key)
    \/ CallExact(<<"A">>)
    \/ \E resp \in Responses : Get(resp)

SpecClient == InitNew /\ [][NextClient]_vars

\* as InitNew, the events of the lookups being recorded
InitAuth ==
    /\ InitRest
    /\ cstate = "none"
    /\ capikey = <<>>
    /\ ckey = <<>>
    /\ self = 1
    /\ shelved = <<>>
    /\ tracing = TRUE

\* a client is constructed, then asked for the exact price of "A", each
\* request recorded with its Authorization header
NextAuth ==
    \/ \E api_key \in KeyPool : Construct(api_key)
    \/ CallExact(<<"A">>)
    \/ \E resp \in SeqResponses : Get(resp)

SpecAuth == InitAuth /\ [][NextAuth]_vars

\* both instances share one dict (a class attribute)
SwitchedInShared(mine, theirs) == mine

\* self.cache of the instance the caller turns to
SwitchedIn(mine, theirs) == theirs

\* the caller turns to the other of two CSFloatClient instances: self, and
\* with it self.cache, now denote that instance
SwitchClient ==
    /\ lpc = "idle"
    /\ vpc = "none"
    /\ self' = 3 - self
    /\ cache' = SwitchedIn(cache, shelved)
    /\ shelved' = cache
    /\ UNCHANGED <<lpc, cur, attempt, last_exc, wire, gets, sleeps, ret, ncalls, firstRet,
                   filled, trace>>
    /\ UNCHANGED <<cstate, capikey, ckey, tracing>>
    /\ UNCHANGED <<valueVars, fetchVars, aggVars, csvVars, mainVars, threadVars, healthVars>>

\* names looked up on the two instances
TwoNames == { <<"A">>, <<"A", " ", "(", "x", ")">> }

\* two clients, lookups on either
NextTwo ==
    \/ \E name \in TwoNames : CallExact(name)
    \/ \E name \in TwoNames : CallBroad(name)
    \/ \E resp \in SeqResponses : Get(resp)
    \/ SwitchClient

SpecTwo == Init /\ [][NextTwo]_vars

\* ------------------------------------------------------------------------
\* Steam inventory: fetch_full_inventory
\* ------------------------------------------------------------------------

\* a JSON string value; None is a key that is absent (dict.get gives None)
Str(s) == [tag |-> "str", s |-> s]

\* Python truthiness of a value that is None or a string
Truthy(v) == v # None /\ v.s # ""

\* an entry of data["assets"]
Own(c, i) == [classid |-> c, instanceid |-> i]

\* an entry of data["descriptions"]; an absent name reads as the empty string
Desc(c, i, mhn, mn, m) ==
    [classid |-> c, instanceid |-> i, market_hash_name |-> mhn,
     market_name |-> mn, marketable |-> m]

\* the {} that desc_map.get(key, {}) falls back to, read through d.get
EmptyDesc == Desc(<<>>, <<>>, <<>>, <<>>, 0)

\* f"{classid}_{instanceid}"
DescKey(e) == e.classid \o <<"_">> \o e.instanceid

\* desc_map is filled first to last, so the first entry under a key stays
DescLookupFirst(descs, key) ==
    LET hits == { j \in 1..Len(descs) : DescKey(descs[j]) = key }
    IN  IF hits = {} THEN EmptyDesc
        ELSE descs[CHOOSE j \in hits : \A k \in hits : j <= k]

\* desc_map.get(key, {}): the dict comprehension keeps the last entry of a key
DescLookup(descs, key) ==
    LET hits == { j \in 1..Len(descs) : DescKey(descs[j]) = key }
    IN  IF hits = {} THEN EmptyDesc
        ELSE descs[CHOOSE j \in hits : \A k \in hits : k <= j]

\* (d.get("market_hash_name") or d.get("market_name") or "").strip()
DisplayName(d) ==
    Strip(IF d.market_hash_name # <<>> THEN d.market_hash_name ELSE d.market_name)

\* the for loop over data["assets"]: what one page appends to assets
RECURSIVE PageAssets(_, _)
PageAssets(owned, descs) ==
    IF owned = <<>> THEN <<>>
    ELSE LET d == DescLookup(descs, DescKey(Head(owned)))
             name == DisplayName(d)
             rest == PageAssets(Tail(owned), descs)
         IN  IF name # <<>>
             THEN <<[name |-> name, marketable |-> d.marketable]>> \o rest
             ELSE rest

\* data.get("last_assetid") or None
NextStart(data) == IF Truthy(data.last_assetid) THEN data.last_assetid ELSE None

\* the loop goes on whenever the flag is set, whatever the cursor
ContinuesOnFlag(data) == data.more_items = 1

\* the loop goes on: more_items == 1 and the new start is truthy
Continues(data) == data.more_items = 1 /\ NextStart(data) # None

\* a cursor already in params is kept
RequestCursorSticky(st, p) == IF p # None THEN p ELSE st

\* if start is not None: params["start_assetid"] = start
RequestCursor(st, p) == IF st # None THEN st ELSE p

\* every failing status raises the same HTTPError
FetchClassifyNoForbidden(status) ==
    CASE status = 0 -> "RequestException"
      [] status >= 400 -> "HTTPError"
      [] OTHER -> "ok"

\* sess.get raising, the 403 test, then raise_for_status
FetchClassify(status) ==
    CASE status = 0 -> "RequestException"
      [] status = 403 -> "PermissionError"
      [] status >= 400 -> "HTTPError"
      [] OTHER -> "ok"

\* page contents the Steam endpoint answers with
PageContents ==
    { [assets |-> <<Own(<<"1">>, <<"0">>), Own(<<"2">>, <<"0">>)>>,
       descriptions |-> <<Desc(<<"1">>, <<"0">>, <<"A">>, <<"B">>, 1),
                          Desc(<<"2">>, <<"0">>, <<>>, <<"B">>, 0)>>],
      [assets |-> <<Own(<<"1">>, <<"0">>), Own(<<"1">>, <<"1">>)>>,
       descriptions |-> <<Desc(<<"1">>, <<"0">>, <<"A">>, <<>>, 1)>>],
      [assets |-> <<Own(<<"1">>, <<"0">>)>>,
       descriptions |-> <<Desc(<<"1">>, <<"0">>, <<" ">>, <<"B">>, 1)>>],
      [assets |-> <<Own(<<"1">>, <<"0">>)>>,
       descriptions |-> <<Desc(<<"1">>, <<"0">>, <<"A">>, <<>>, 1),
                          Desc(<<"1">>, <<"0">>, <<>>, <<>>, 1)>>],
      [assets |-> <<Own(<<"2">>, <<"0">>), Own(<<"1">>, <<"0">>), Own(<<"2">>, <<"0">>)>>,
       descriptions |-> <<Desc(<<"1">>, <<"0">>, <<"A", " ">>, <<>>, 0),
                          Desc(<<"2">>, <<"0">>, <<>>, <<"B">>, 1)>>],
      [assets |-> <<Own(<<"1">>, <<"0">>)>>,
       descriptions |-> <<Desc(<<"1">>, <<"0">>, <<>>, <<>>, 1)>>],
      [assets |-> <<>>, descriptions |-> <<>>] }

\* more_items and last_assetid as a page reports them
Paginations ==
    { [more_items |-> 0, last_assetid |-> None],
      [more_items |-> 0, last_assetid |-> Str("c1")],
      [more_items |-> 1, last_assetid |-> Str("c1")],
      [more_items |-> 1, last_assetid |-> Str("c2")],
      [more_items |-> 1, last_assetid |-> Str("")],
      [more_items |-> 1, last_assetid |-> None] }

NoData == [assets |-> <<>>, descriptions |-> <<>>, more_items |-> 0, last_assetid |-> None]

\* answers to one page request: status 0 stands for sess.get raising
SteamResponses ==
    { [status |-> st, data |-> NoData] : st \in {0, 403, 404, 500} }
    \cup { [status |-> 200,
            data |-> [assets |-> c.assets, descriptions |-> c.descriptions,
                      more_items |-> p.more_items, last_assetid |-> p.last_assetid]] :
           c \in PageContents, p \in Paginations }

\* fetch_full_inventory is called: params, start, assets, sess are set up
FetchStart ==
    /\ fpc = "idle"
    /\ fpc' = "send"
    /\ start' = None
    /\ params' = None
    /\ fassets' = <<>>
    /\ UNCHANGED <<freqs, fresps, fret>>
    /\ UNCHANGED outsideFetch

\* top of the while loop: the cursor goes into params and the request leaves
FetchSend ==
    /\ fpc = "send"
    /\ Len(freqs) < MaxPages
    /\ params' = RequestCursor(start, params)
    /\ freqs' = Append(freqs, params')
    /\ fpc' = "wait"
    /\ UNCHANGED <<start, fassets, fresps, fret>>
    /\ UNCHANGED outsideFetch

\* the response arrives: status tests, the page's assets, the loop decision
FetchReceive(resp) ==
    /\ fpc = "wait"
    /\ fresps' = Append(fresps, resp)
    /\ LET outcome == FetchClassify(resp.status)
           data == resp.data
       IN  IF outcome # "ok"
           THEN /\ fpc' = "done"
                /\ fret' = [kind |-> "raise", exc |-> outcome, assets |-> <<>>]
                /\ UNCHANGED <<start, fassets>>
           ELSE /\ fassets' = fassets \o PageAssets(data.assets, data.descriptions)
                /\ start' = IF data.more_items = 1 THEN NextStart(data) ELSE start
                /\ IF Continues(data)
                   THEN /\ fpc' = "send"
                        /\ UNCHANGED fret
                   ELSE /\ fpc' = "done"
                        /\ fret' = [kind |-> "return", exc |-> "", assets |-> fassets']
    /\ UNCHANGED <<params, freqs>>
    /\ UNCHANGED outsideFetch

\* one inventory fetch
NextFetch ==
    \/ FetchStart
    \/ FetchSend
    \/ \E resp \in SteamResponses : FetchReceive(resp)

SpecFetch == Init /\ [][NextFetch]_vars

\* ------------------------------------------------------------------------
\* Aggregation: count_by_name
\* ------------------------------------------------------------------------

\* an element of assets
Asset(n, m) == [name |-> n, marketable |-> m]

\* the flag is ignored: unmarketable assets are always skipped
CountedMarketableOnly(a, include) == a.marketable # 0

\* not (not include_unmarketable and not a.get("marketable", 0))
Counted(a, include) == include \/ a.marketable # 0

\* n = (a.get("name") or "").strip()
KeyName(a) == Strip(a.name)

\* c[n] += 1 on a Counter
Bump(c, n) ==
    IF n \in DOMAIN c THEN [c EXCEPT ![n] = @ + 1]
    ELSE [k \in DOMAIN c \cup {n} |-> IF k = n THEN 1 ELSE c[k]]

\* the for loop of count_by_name, from the Counter c over the rest of assets
RECURSIVE CountLoop(_, _, _)
CountLoop(c, assets, include) ==
    IF assets = <<>> THEN c
    ELSE LET a == Head(assets)
             n == KeyName(a)
         IN  CountLoop(IF Counted(a, include) /\ n # <<>> THEN Bump(c, n) ELSE c,
                       Tail(assets), include)

\* assets as a caller may hand them over: names empty, padded, repeated
AssetPool ==
    { Asset(n, m) : n \in { <<>>, <<"A">>, <<" ", "A">>, <<"B">> }, m \in {0, 1} }

\* lists of at most n assets
RECURSIVE AssetLists(_)
AssetLists(n) ==
    IF n = 0 THEN { <<>> }
    ELSE AssetLists(n - 1)
         \cup { Append(l, a) : l \in { x \in AssetLists(n - 1) : Len(x) = n - 1 },
                               a \in AssetPool }

\* count_by_name(assets, include_unmarketable) is called
AggregateCall(assets, include) ==
    /\ apc = "idle"
    /\ apc' = "called"
    /\ aggAssets' = assets
    /\ aggInclude' = include
    /\ aggGiven' = assets
    /\ UNCHANGED agg
    /\ UNCHANGED outsideAggregate

\* its body: the loop reads assets and returns the counts
AggregateRun ==
    /\ apc = "called"
    /\ apc' = "done"
    /\ agg' = CountLoop(EmptyCounter, aggAssets, aggInclude)
    /\ UNCHANGED <<aggAssets, aggInclude, aggGiven>>
    /\ UNCHANGED outsideAggregate

\* one aggregation
NextAggregate ==
    \/ \E assets \in AssetLists(MaxAssets), include \in BOOLEAN : AggregateCall(assets, include)
    \/ AggregateRun

SpecAggregate == Init /\ [][NextAggregate]_vars

\* ------------------------------------------------------------------------
\* CSV: write_csv
\* ------------------------------------------------------------------------

\* str() of a digit
DigitChar(d) ==
    CASE d = 0 -> "0" [] d = 1 -> "1" [] d = 2 -> "2" [] d = 3 -> "3" [] d = 4 -> "4"
      [] d = 5 -> "5" [] d = 6 -> "6" [] d = 7 -> "7" [] d = 8 -> "8" [] OTHER -> "9"

\* str(n) for an int n >= 0
RECURSIVE IntToStr(_)
IntToStr(n) ==
    IF n < 10 THEN <<DigitChar(n)>>
    ELSE IntToStr(n \div 10) \o <<DigitChar(n % 10)>>

\* mutant of Usd: the cents part is not padded to two digits
UsdUnpadded(c) == IntToStr(c \div 100) \o <<".">> \o IntToStr(c % 100)

\* f"{c/100:.2f}" for an int c >= 0 below 2^53: c/100 is the double nearest
\* to the quotient and its two-decimal rendering is the quotient itself
Usd(c) ==
    IntToStr(c \div 100) \o <<".">> \o <<DigitChar((c % 100) \div 10), DigitChar(c % 10)>>

\* (r['unit_cents'] or 0)
UnitOrZero(u) == IF u = None THEN 0 ELSE u.v

\* mutant of YesNo: str(r["priced"])
YesNoBool(b) == IF b THEN <<"T", "r", "u", "e">> ELSE <<"F", "a", "l", "s", "e">>

\* "yes" if r["priced"] else "no"
YesNo(b) == IF b THEN <<"y", "e", "s">> ELSE <<"n", "o">>

\* the characters of the mode and listing_id strings of a row
Chars(t) ==
    CASE t = "exact" -> <<"e", "x", "a", "c", "t">>
      [] t = "broad" -> <<"b", "r", "o", "a", "d">>
      [] t = "42" -> <<"4", "2">>
      [] t = "7" -> <<"7">>
      [] OTHER -> <<>>

\* w.writerow(["name", "qty", "unit_usd", "subtotal_usd", "priced", "mode", "listing_id"])
HeaderRecord ==
    << <<"n", "a", "m", "e">>, <<"q", "t", "y">>, <<"u", "n", "i", "t", "_", "u", "s", "d">>,
       <<"s", "u", "b", "t", "o", "t", "a", "l", "_", "u", "s", "d">>,
       <<"p", "r", "i", "c", "e", "d">>, <<"m", "o", "d", "e">>,
       <<"l", "i", "s", "t", "i", "n", "g", "_", "i", "d">> >>

\* the list written for one row
RowRecord(r) ==
    << r.name, IntToStr(r.qty), Usd(UnitOrZero(r.unit_cents)), Usd(r.subtotal_cents),
       YesNo(r.priced), Chars(r.mode), Chars(r.listing_id) >>

\* mutant of TotalRecord: the trailing list is one field short
TotalRecordShort(grand) == << <<"T", "O", "T", "A", "L">>, <<>>, <<>>, Usd(grand), <<>>, <<>> >>

\* w.writerow(["TOTAL", "", "", f"{grand_cents/100:.2f}", "", "", ""])
TotalRecord(grand) == << <<"T", "O", "T", "A", "L">>, <<>>, <<>>, Usd(grand), <<>>, <<>>, <<>> >>

\* csv.writer, excel dialect: a field holding the delimiter, the quote
\* character or a line break is quoted, its quote characters doubled
NeedsQuote(f) == \E i \in 1..Len(f) : f[i] \in {",", "\"", "\n", "\r"}

RECURSIVE DoubleQuotes(_)
DoubleQuotes(f) ==
    IF f = <<>> THEN <<>>
    ELSE (IF Head(f) = "\"" THEN <<"\"", "\"">> ELSE <<Head(f)>>) \o DoubleQuotes(Tail(f))

CsvField(f) == IF NeedsQuote(f) THEN <<"\"">> \o DoubleQuotes(f) \o <<"\"">> ELSE f

\* the fields of a record joined by the delimiter
RECURSIVE CsvLine(_)
CsvLine(rec) ==
    IF Len(rec) = 1 THEN CsvField(rec[1])
    ELSE CsvField(Head(rec)) \o <<",">> \o CsvLine(Tail(rec))

\* names of the rows: the scenario's, and one holding the delimiter
CsvNames == { <<"A", "K", "-", "4", "7", " ", "|", " ", "R", "e", "d", "l", "i", "n", "e">>, <<"a", ",", "b">> }

\* rows as sequential_value builds them: unpriced, priced at 1500, 5 and 0 cents
CsvRowPool ==
    { MakeRow(n, 2, None, "exact") : n \in CsvNames }
    \cup { MakeRow(n, 2, Quote(1500, "42", n), m) : n \in CsvNames, m \in {"exact", "broad"} }
    \cup { MakeRow(n, 2, Quote(5, "7", n), "exact") : n \in CsvNames }
    \cup { MakeRow(n, 2, Quote(0, "7", n), "broad") : n \in CsvNames }

\* lists of at most n rows
RECURSIVE RowLists(_)
RowLists(n) ==
    IF n = 0 THEN { <<>> }
    ELSE RowLists(n - 1)
         \cup { Append(l, r) : l \in { x \in RowLists(n - 1) : Len(x) = n - 1 },
                               r \in CsvRowPool }

\* the sum of r["subtotal_cents"], which is the total sequential_value returns
RECURSIVE RowsTotal(_)
RowsTotal(rs) == IF rs = <<>> THEN 0 ELSE Head(rs).subtotal_cents + RowsTotal(Tail(rs))

\* write_csv(rows, grand_cents, path) is called with the result of a run
CsvCall(rs) ==
    /\ wpc = "idle"
    /\ wpc' = "called"
    /\ csvRows' = rs
    /\ csvTotal' = RowsTotal(rs)
    /\ UNCHANGED <<csvRecs, csvLines>>
    /\ UNCHANGED outsideCsv

\* its body: header, one record per row, the TOTAL record
CsvWrite ==
    /\ wpc = "called"
    /\ wpc' = "done"
    /\ csvRecs' = <<HeaderRecord>> \o [i \in 1..Len(csvRows) |-> RowRecord(csvRows[i])]
                  \o <<TotalRecord(csvTotal)>>
    /\ csvLines' = [i \in 1..Len(csvRecs') |-> CsvLine(csvRecs'[i])]
    /\ UNCHANGED <<csvRows, csvTotal>>
    /\ UNCHANGED outsideCsv

\* one export
NextCsv ==
    \/ \E rs \in RowLists(MaxRows) : CsvCall(rs)
    \/ CsvWrite

SpecCsv == Init /\ [][NextCsv]_vars

\* ------------------------------------------------------------------------
\* Command line: main and the handler around it
\* ------------------------------------------------------------------------

\* args.key or os.getenv("CSFLOAT_API_KEY") or os.getenv("FLOAT_TOKEN");
\* an option or variable that is not set reads as the empty string
TokenOf(a) ==
    IF a.key # <<>> THEN a.key
    ELSE IF a.CSFLOAT_API_KEY # <<>> THEN a.CSFLOAT_API_KEY
    ELSE a.FLOAT_TOKEN

\* the except clauses around main(): PermissionError, requests.HTTPError,
\* Exception; sys.exit(2) raises SystemExit, which none of them catches; a
\* main() that returns ends the process with 0
ExitCode(exc) ==
    CASE exc = "None" -> 0
      [] exc = "SystemExit" -> 2
      [] exc = "PermissionError" -> 3
      [] exc = "HTTPError" -> 4
      [] OTHER -> 5

\* dict(c) of count_by_name: the names in the order they were first counted
CountsOf(assets, include) ==
    LET c == CountLoop(EmptyCounter, assets, include)
        first(n) == CHOOSE i \in 1..Len(assets) :
                        /\ Counted(assets[i], include) /\ KeyName(assets[i]) = n
                        /\ \A j \in 1..(i - 1) :
                              ~(Counted(assets[j], include) /\ KeyName(assets[j]) = n)
        rank(n) == 1 + Cardinality({ m \in DOMAIN c : first(m) < first(n) })
    IN  [r \in 1..Cardinality(DOMAIN c) |->
            LET n == CHOOSE m \in DOMAIN c : rank(m) = r
            IN  [name |-> n, qty |-> c[n]]]

\* a credential of 7 characters
ShortKey == <<"1", "2", "3", "4", "5", "6", "7">>

\* command lines (--steamid given, no --probe, no --csv) and environments
MainArgs ==
    { [key |-> <<>>, CSFLOAT_API_KEY |-> <<>>, FLOAT_TOKEN |-> <<>>,
       include_unmarketable |-> FALSE],
      [key |-> ShortKey, CSFLOAT_API_KEY |-> ValidKey, FLOAT_TOKEN |-> <<>>,
       include_unmarketable |-> FALSE],
      [key |-> <<>>, CSFLOAT_API_KEY |-> ShortKey, FLOAT_TOKEN |-> ValidKey,
       include_unmarketable |-> FALSE],
      [key |-> <<>>, CSFLOAT_API_KEY |-> <<>>, FLOAT_TOKEN |-> ValidKey,
       include_unmarketable |-> FALSE],
      [key |-> ValidKey, CSFLOAT_API_KEY |-> <<>>, FLOAT_TOKEN |-> <<>>,
       include_unmarketable |-> TRUE] }

\* answers of the inventory endpoint to a run of main: a failure, or a page
\* with one marketable and one unmarketable item, last or not
MainSteamResponses ==
    { r \in SteamResponses :
        \/ r.status # 200
        \/ /\ Len(r.data.assets) = 2
           /\ Len(r.data.descriptions) = 2
           /\ r.data.last_assetid = (IF r.data.more_items = 1 THEN Str("c1") ELSE None) }

\* main up to the construction of the client: the token is looked up, and
\* without one the process exits with 2
MainToken(a) ==
    /\ mpc = "idle"
    /\ margs' = a
    /\ token' = TokenOf(a)
    /\ IF TokenOf(a) = <<>>
       THEN /\ mpc' = "exited"
            /\ mexit' = [kind |-> "exit", code |-> ExitCode("SystemExit"), exc |-> "SystemExit"]
       ELSE /\ mpc' = "run"
            /\ UNCHANGED mexit
    /\ UNCHANGED outsideMain

\* cf = CSFloatClient(api_key=token, ...)
MainConstruct ==
    /\ mpc = "run"
    /\ Construct(token)

\* assets = fetch_full_inventory(steamid64): the call
MainFetch ==
    /\ mpc = "run"
    /\ cstate = "ok"
    /\ FetchStart

\* its page requests
MainFetchSend ==
    /\ mpc = "run"
    /\ FetchSend

MainFetchReceive(resp) ==
    /\ mpc = "run"
    /\ FetchReceive(resp)

\* counts = count_by_name(assets, ...); sequential_value(counts, cf)
MainValue ==
    /\ mpc = "run"
    /\ fpc = "done"
    /\ fret.kind = "return"
    /\ ValueStart(CountsOf(fret.assets, margs.include_unmarketable))

\* the exception that left main, "None" when main returned
MainOutcome ==
    CASE cstate = "raised" -> "ValueError"
      [] fret.kind = "raise" -> fret.exc
      [] vret.kind = "raise" -> vret.exc
      [] OTHER -> "None"

\* main ends: by an exception that reaches the handler, or by returning
MainExit ==
    /\ mpc = "run"
    /\ \/ cstate = "raised"
       \/ fpc = "done" /\ fret.kind = "raise"
       \/ vpc = "done"
    /\ mpc' = "exited"
    /\ mexit' = [kind |-> "exit", code |-> ExitCode(MainOutcome), exc |-> MainOutcome]
    /\ UNCHANGED <<margs, token>>
    /\ UNCHANGED outsideMain

\* one run of the command
NextMain ==
    \/ \E a \in MainArgs : MainToken(a)
    \/ MainConstruct
    \/ MainFetch
    \/ MainFetchSend
    \/ \E resp \in MainSteamResponses : MainFetchReceive(resp)
    \/ MainValue
    \/ ValueExact
    \/ ValueBroad
    \/ \E resp \in Responses : Get(resp)
    \/ MainExit

SpecMain == InitNew /\ [][NextMain]_vars

\* ------------------------------------------------------------------------
\* Two concurrent callers of lowest_listing_exact
\* ------------------------------------------------------------------------

\* names the concurrent callers look up
ThreadNames == { <<"A">>, <<"B">> }

\* answers of the pricing service to them: a server error, one of two
\* listings
ThreadResponses ==
    { r \in Responses :
        \/ r.status = 500
        \/ r.status = 200 /\ r.body.kind = "list" }

\* mutant of ClientOf: the callers always use the same instance
ClientOfShared(t) == 1

\* the instance caller t uses: cf of its own run, or the one both were given
ClientOf(t) == IF tshared THEN 1 ELSE t

\* frame of a caller's lookup inside _get
TFrame(name, a) ==
    [mode |-> "exact", name |-> name, key |-> ExactKey(name), query |-> name, attempt |-> a]
NoTFrame == TFrame(<<>>, 0)

\* the program hands the client of caller 1 to caller 2 as well
ShareClient ==
    /\ ~tshared
    /\ tlog = <<>>
    /\ \A t \in 1..2 : tpc[t] = "idle" /\ tdone[t] = 0
    /\ tshared' = TRUE
    /\ UNCHANGED <<tcache, tpc, tcur, tdone, tlog>>
    /\ UNCHANGED outsideThreads

\* caller t runs lowest_listing_exact(name) up to the request: the cache
\* test, and the return of the cached value on a hit
ThreadCall(t, name) ==
    LET c == ClientOf(t)
        key == ExactKey(name)
    IN  /\ tpc[t] = "idle"
        /\ tdone[t] < MaxLookups
        /\ IF CacheHit(tcache[c], key)
           THEN /\ tdone' = [tdone EXCEPT ![t] = @ + 1]
                /\ UNCHANGED <<tpc, tcur>>
           ELSE /\ tpc' = [tpc EXCEPT ![t] = "get"]
                /\ tcur' = [tcur EXCEPT ![t] = TFrame(name, 0)]
                /\ UNCHANGED tdone
        /\ UNCHANGED <<tshared, tcache, tlog>>
        /\ UNCHANGED outsideThreads

\* one HTTP request of caller t's _get is answered with resp: the pass of the
\* loop, and after a successful one the cache write and the return
ThreadGet(t, resp) ==
    LET c == ClientOf(t)
        f == tcur[t]
        out == Classify(resp)
    IN  /\ tpc[t] = "get"
        /\ IF out.kind = "return"
           THEN LET v == IF IsNoListing(resp.body) THEN None
                         ELSE Quote(resp.body.price, resp.body.id, f.query)
                IN  /\ tcache' = [tcache EXCEPT ![c] = CachePut(@, f.key, v)]
                    /\ tlog' = Append(tlog, [t |-> t, c |-> c, key |-> f.key, val |-> v,
                                             requests |-> f.attempt + 1])
                    /\ tpc' = [tpc EXCEPT ![t] = "idle"]
                    /\ tcur' = [tcur EXCEPT ![t] = NoTFrame]
                    /\ tdone' = [tdone EXCEPT ![t] = @ + 1]
           ELSE IF f.attempt + 1 < MaxAttempts
           THEN /\ tcur' = [tcur EXCEPT ![t].attempt = @ + 1]
                /\ UNCHANGED <<tcache, tlog, tpc, tdone>>
           ELSE /\ tpc' = [tpc EXCEPT ![t] = "idle"]
                /\ tcur' = [tcur EXCEPT ![t] = NoTFrame]
                /\ tdone' = [tdone EXCEPT ![t] = @ + 1]
                /\ UNCHANGED <<tcache, tlog>>
        /\ UNCHANGED tshared
        /\ UNCHANGED outsideThreads

\* two callers, each pricing names on its client, their steps interleaved
NextThreads ==
    \/ ShareClient
    \/ \E t \in 1..2 : \E name \in ThreadNames : ThreadCall(t, name)
    \/ \E t \in 1..2 : \E resp \in ThreadResponses : ThreadGet(t, resp)

SpecThreads == Init /\ [][NextThreads]_vars

\* ------------------------------------------------------------------------
\* Bot health: _health, its two endpoints and the lifecycle events (main.py)
\* ------------------------------------------------------------------------

\* bot.latency when on_ready reads it: seconds as a count of microseconds, or
\* float("inf") while no heartbeat has been acknowledged
Latencies ==
    { [inf |-> TRUE, us |-> 0], [inf |-> FALSE, us |-> 0],
      [inf |-> FALSE, us |-> 999], [inf |-> FALSE, us |-> 42500] }

\* int(bot.latency * 1000) of a finite latency: truncation
LatencyMs(l) == (l.us * 1000) \div 1000000

\* len(bot.cogs)
CogCounts == {0, 6}

\* mutant of HealthOk: the latency test left out
HealthOkStatusOnly(status, latency) == status = "ready"

\* ok of health(): status is "ready" and latency_ms is an int or a float
HealthOk(status, latency) == status = "ready" /\ latency # None

\* the test of ready()
ReadyOk(status) == status = "ready"

\* code = 200 if ... else 503
StatusCode(ok) == IF ok THEN 200 ELSE 503

\* mutant of LoopFree: a handler may run between any two statements
LoopFreeAlways == TRUE

\* the event loop runs another handler only while no coroutine is running:
\* on_ready is not running, or is suspended in await bot.change_presence(...)
LoopFree == hpc \in {"idle", "presence"}

\* on_ready is dispatched and runs line 111
OnReadyBegin ==
    /\ LoopFree
    /\ hstatus' = "connected"
    /\ hpc' = "112"
    /\ hlast' = "on_ready"
    /\ UNCHANGED <<hcogs, hlatency, hraised, hresp>>
    /\ UNCHANGED outsideHealth

\* line 112
OnReadyCogs(n) ==
    /\ hpc = "112"
    /\ hcogs' = n
    /\ hpc' = "113"
    /\ UNCHANGED <<hstatus, hlatency, hlast, hraised, hresp>>
    /\ UNCHANGED outsideHealth

\* line 113: int() of an infinite latency raises, and the exception leaves
\* on_ready
OnReadyLatency(l) ==
    /\ hpc = "113"
    /\ IF l.inf
       THEN /\ hpc' = "idle"
            /\ hraised' = TRUE
            /\ UNCHANGED hlatency
       ELSE /\ hpc' = "114"
            /\ hlatency' = Some(LatencyMs(l))
            /\ UNCHANGED hraised
    /\ UNCHANGED <<hstatus, hcogs, hlast, hresp>>
    /\ UNCHANGED outsideHealth

\* line 114, then on_ready waits in await bot.change_presence(...)
OnReadyStatus ==
    /\ hpc = "114"
    /\ hstatus' = "ready"
    /\ hpc' = "presence"
    /\ UNCHANGED <<hcogs, hlatency, hlast, hraised, hresp>>
    /\ UNCHANGED outsideHealth

\* lines 117-123: the presence call ends (its exception is caught), the
\* line is logged, on_ready returns
OnReadyEnd ==
    /\ hpc = "presence"
    /\ hpc' = "idle"
    /\ UNCHANGED <<hstatus, hcogs, hlatency, hlast, hraised, hresp>>
    /\ UNCHANGED outsideHealth

\* on_resumed
OnResumed ==
    /\ LoopFree
    /\ hstatus' = "ready"
    /\ hlast' = "on_resumed"
    /\ UNCHANGED <<hcogs, hlatency, hpc, hraised, hresp>>
    /\ UNCHANGED outsideHealth

\* on_disconnect
OnDisconnect ==
    /\ LoopFree
    /\ hstatus' = "disconnected"
    /\ hlast' = "on_disconnect"
    /\ UNCHANGED <<hcogs, hlatency, hpc, hraised, hresp>>
    /\ UNCHANGED outsideHealth

\* GET /health or GET /ready: the handler answers with _health as it is
Request(path) ==
    /\ LoopFree
    /\ hresp' = [kind |-> "response", path |-> path,
                 code |-> (IF path = "/health" THEN StatusCode(HealthOk(hstatus, hlatency))
                           ELSE StatusCode(ReadyOk(hstatus))),
                 status |-> hstatus, latency_ms |-> hlatency, cogs_loaded |-> hcogs]
    /\ UNCHANGED <<hstatus, hcogs, hlatency, hpc, hlast, hraised>>
    /\ UNCHANGED outsideHealth

\* the bot's event loop: lifecycle events and health requests in any order
NextHealth ==
    \/ OnReadyBegin
    \/ \E n \in CogCounts : OnReadyCogs(n)
    \/ \E l \in Latencies : OnReadyLatency(l)
    \/ OnReadyStatus
    \/ OnReadyEnd
    \/ OnResumed
    \/ OnDisconnect
    \/ \E path \in {"/health", "/ready"} : Request(path)

SpecHealth == Init /\ [][NextHealth]_vars

\* ------------------------------------------------------------------------
\* Properties
\* ------------------------------------------------------------------------

RECURSIVE SumSubtotals(_)
SumSubtotals(rs) ==
    IF rs = <<>> THEN 0 ELSE rs[1].subtotal_cents + SumSubtotals(Tail(rs))

CountNames == {counts[i].name : i \in 1..Len(counts)}

\* C1: whenever sequential_value returns, the total it returns is the sum of
\* the subtotals of the rows it returns, and the rows hold exactly one row
\* for each name of the count mapping.
C1_TotalIsSumOfSubtotals ==
    vret.kind = "return" =>
        /\ vret.total = SumSubtotals(vret.rows)
        /\ Len(vret.rows) = Len(counts)
        /\ \A n \in CountNames :
               Cardinality({i \in 1..Len(vret.rows) : vret.rows[i].name = n}) = 1

\* a run that returned two rows, one priced above zero and one unpriced
C1_Witness ==
    /\ vret.kind = "return"
    /\ Len(vret.rows) = 2
    /\ vret.total > 0
    /\ \E i \in 1..2 : ~vret.rows[i].priced

\* the quotes the lookups of this run returned for name n
QuotesFor(n) ==
    {vlog[i].val : i \in {j \in 1..Len(vlog) :
                            /\ vlog[j].name = n
                            /\ vlog[j].kind = "return"
                            /\ vlog[j].val # None}}

\* C2: a row is priced exactly when a lookup of its name returned a quote, a
\* quote of 0 cents included; a priced row carries the quote's price and
\* subtotal = price * quantity; an unpriced row has no unit price, subtotal 0
\* and an empty listing id.  Counts {"A": 3} with an exact quote of 999 give
\* one priced row of mode exact and the total 2997.
C2_RowInvariant ==
    /\ \A i \in 1..Len(rows) :
          LET r == rows[i]
              q == QuotesFor(r.name)
          IN  /\ r.priced <=> q # {}
              /\ r.priced =>
                    /\ \E u \in q : r.unit_cents = [tag |-> "some", v |-> u.cents]
                    /\ r.subtotal_cents = r.unit_cents.v * Qty(counts, r.name)
              /\ ~r.priced =>
                    /\ r.unit_cents = None
                    /\ r.subtotal_cents = 0
                    /\ r.listing_id = ""
    /\ ( /\ vret.kind = "return"
         /\ counts = <<[name |-> <<"A">>, qty |-> 3]>>
         /\ vlog[1].val # None
         /\ vlog[1].val.cents = 999 )
       => /\ vret.total = 2997
          /\ Len(vret.rows) = 1
          /\ vret.rows[1].priced
          /\ vret.rows[1].mode = "exact"

\* the scenario has run: {"A": 3}, exact quote of 999 cents, total 2997
C2_Witness ==
    /\ vret.kind = "return"
    /\ counts = <<[name |-> <<"A">>, qty |-> 3]>>
    /\ vret.rows[1].priced
    /\ vret.total = 2997

\* the cache slot and the query of the lookup mode(name)
KeyOf(mode, name) == IF mode = "exact" THEN ExactKey(name) ELSE BroadKey(BaseName(name))
QueryOf(mode, name) == IF mode = "exact" THEN name ELSE BaseName(name)

\* the value a lookup gives for a successful response with a well-formed body
Expected(body, query) ==
    IF body.kind = "list" THEN Quote(body.price, body.id, query) ELSE None

Statuses == [i \in 1..Len(wire) |-> wire[i].status]

\* a lookup has ended (and no other has started since)
Ended == lpc = "idle" /\ ret.kind # "none"

\* C3: once a lookup mode(name) has returned, every later lookup of the same
\* mode and name returns the same value without a listings request (no _get,
\* no HTTP request), whatever was looked up in between; and the first such
\* lookup that missed the cache issued exactly one listings request, so two
\* successive lookups issue one in total.  For lowest_listing_exact on every
\* name, for lowest_listing_broad on names with a trailing group.
C3_CacheIdempotence ==
    (Ended /\ (ret.mode = "exact" \/ HasTrailingGroup(ret.name))) =>
        /\ ret.repeat =>
              /\ ret.kind = "return"
              /\ ret.val = firstRet[<<ret.mode, ret.name>>]
              /\ gets = 0
              /\ wire = <<>>
        /\ (~ret.repeat /\ ~ret.hit /\ ret.kind = "return") => gets = 1

\* the third lookup of a client repeats a broad lookup that returned a quote
C3_Witness ==
    /\ Ended
    /\ ncalls = 3
    /\ ret.repeat
    /\ ret.mode = "broad"
    /\ HasTrailingGroup(ret.name)
    /\ ret.val # None
    /\ Cardinality(DOMAIN cache) = 2

\* C4: a cache slot that has been written, with a quote or with None, keeps
\* its value in every later state: no step removes or overwrites it.
C4_WriteOnce ==
    [][\A k \in DOMAIN cache : k \in DOMAIN cache' /\ cache'[k] = cache[k]]_vars

\* a lookup has hit a slot of a cache that holds a quote and a None
C4_Witness ==
    /\ Ended
    /\ ret.hit
    /\ \E k \in DOMAIN cache : cache[k] = None
    /\ \E k \in DOMAIN cache : cache[k] # None

\* C5: a 401 or 403 answer to the first attempt ends the request at once with
\* PermissionError (the AccessError): one HTTP request, no sleep, no retry.
C5_AuthShortCircuit ==
    (wire # <<>> /\ wire[1].status \in {401, 403}) =>
        /\ Ended
        /\ Len(wire) = 1
        /\ sleeps = <<>>
        /\ ret.kind = "raise"
        /\ ret.exc = "PermissionError"

GenericStatuses == {0, 500}
ExcOf(status) == IF status = 0 THEN "Timeout" ELSE "HTTPError"

\* C6: a request whose attempts all fail generically (sess.get raises, 5xx)
\* makes exactly 2 attempts and then raises RuntimeError (the TransportError)
\* carrying the exception of the last attempt; when the first attempt fails
\* generically and the second succeeds, the lookup goes on with the second
\* response.
C6_GenericRetry ==
    /\ (wire # <<>> /\ \A i \in 1..Len(wire) : wire[i].status \in GenericStatuses) =>
          /\ Len(wire) <= 2
          /\ Len(wire) = 1 => lpc = "get" /\ attempt = 1
          /\ Len(wire) = 2 =>
                /\ Ended
                /\ ret.kind = "raise"
                /\ ret.exc = "RuntimeError"
                /\ ret.cause = ExcOf(wire[2].status)
    /\ (Len(wire) = 2 /\ wire[1].status \in GenericStatuses /\ wire[2].status = 200) =>
          /\ Ended
          /\ IF wire[2].body.kind = "malformed"
             THEN ret.kind = "raise" /\ ret.exc = "KeyError"
             ELSE /\ ret.kind = "return"
                  /\ ret.val = Expected(wire[2].body, QueryOf(ret.mode, ret.name))

\* two attempts failed generically, a timeout and then a 5xx
C6_Witness ==
    /\ Ended
    /\ Statuses = <<0, 500>>
    /\ ret.exc = "RuntimeError"
    /\ ret.cause = "HTTPError"

\* C7: a request answered 429 and then with success ends after exactly two
\* HTTP requests without raising; the value of the successful response is
\* returned and is the one the cache holds.
C7_RateLimitResilience ==
    /\ (wire # <<>> /\ wire[1].status = 429 /\ Len(wire) = 1) => lpc = "get"
    /\ (Len(wire) >= 2 /\ wire[1].status = 429 /\ wire[2].status = 200
            /\ wire[2].body.kind # "malformed") =>
          /\ Ended
          /\ Len(wire) = 2
          /\ ret.kind = "return"
          /\ ret.val = Expected(wire[2].body, QueryOf(ret.mode, ret.name))
          /\ KeyOf(ret.mode, ret.name) \in DOMAIN cache
          /\ cache[KeyOf(ret.mode, ret.name)] = ret.val

\* a lookup returned a quote after a 429 and a success
C7_Witness ==
    /\ Ended
    /\ Statuses = <<429, 200>>
    /\ ret.kind = "return"
    /\ ret.val # None

\* C8 as claimed: a 429 leaves both generic attempts available, so after a 429
\* and a 5xx the request is still running and makes a further attempt.
C8_Original ==
    (Len(wire) = 2 /\ wire[1].status = 429 /\ wire[2].status = 500) => lpc = "get"

\* C8 as amended: a 429 is retried inside the one loop of 2 attempts and uses
\* one of them up: no request makes more than 2 attempts, and after a 429 and
\* a 5xx it ends with RuntimeError; the sleep after a 429 at attempt n is
\* 1.2 * (n + 1) s, the sleep after a caught exception 0.6 * (n + 1) s.
C8_SharedLoop ==
    /\ Len(wire) <= 2
    /\ (Len(wire) = 2 /\ wire[1].status = 429 /\ wire[2].status = 500) =>
          /\ Ended
          /\ ret.kind = "raise"
          /\ ret.exc = "RuntimeError"
          /\ ret.cause = "HTTPError"
    /\ \A i \in 1..Len(wire) :
          /\ wire[i].status = 429 => sleeps[i] = <<"ratelimit", 12 * i>>
          /\ wire[i].status \in {0, 401, 403, 500} => sleeps[i] = <<"backoff", 6 * i>>

\* a request answered 429 and then 5xx has ended
C8_Witness ==
    /\ Ended
    /\ Statuses = <<429, 500>>
    /\ sleeps = <<<<"ratelimit", 12>>, <<"backoff", 12>>>>

\* C9: lowest_listing_broad on a name without a trailing group returns None
\* and issues no request, whatever was looked up before.
C9_BroadShortCircuit ==
    /\ (lpc = "get" /\ cur.mode = "broad") => HasTrailingGroup(cur.name)
    /\ (Ended /\ ret.mode = "broad" /\ ~HasTrailingGroup(ret.name)) =>
          /\ ret.kind = "return"
          /\ ret.val = None
          /\ gets = 0
          /\ wire = <<>>

ExactAt(i) == vlog[i].mode = "exact"
BroadAt(i) == vlog[i].mode = "broad"
ExactNoneAt(i) == ExactAt(i) /\ vlog[i].kind = "return" /\ vlog[i].val = None

\* C10: during sequential_value the broad lookup of a name is invoked exactly
\* when the exact lookup of that name returned None, right after it; the
\* exact lookup is invoked once per name, so when the run returns every name
\* of the mapping has exactly one.
C10_FallbackSuppression ==
    /\ \A i \in 1..Len(vlog) :
          /\ BroadAt(i) => i > 1 /\ ExactNoneAt(i - 1) /\ vlog[i - 1].name = vlog[i].name
          /\ ExactNoneAt(i) =>
                IF i < Len(vlog)
                THEN BroadAt(i + 1) /\ vlog[i + 1].name = vlog[i].name
                ELSE vpc = "broad"
          /\ (ExactAt(i) /\ ~ExactNoneAt(i) /\ i < Len(vlog)) => ExactAt(i + 1)
    /\ (lpc = "get" /\ cur.mode = "broad") =>
          /\ vlog # <<>>
          /\ ExactNoneAt(Len(vlog))
          /\ vlog[Len(vlog)].name = cur.name
    /\ \A n \in CountNames :
          LET e == {i \in 1..Len(vlog) : ExactAt(i) /\ vlog[i].name = n}
          IN  /\ Cardinality(e) <= 1
              /\ vret.kind = "return" => Cardinality(e) = 1

\* a run returned after one name was priced by its exact lookup and another
\* went through the broad lookup
C10_Witness ==
    /\ vret.kind = "return"
    /\ Len(vlog) = 3
    /\ \E i \in 1..3 : ExactAt(i) /\ vlog[i].val # None
    /\ \E i \in 1..3 : BroadAt(i)

\* the lookups of this run for name n, by mode
LogOf(n, mode) == {i \in 1..Len(vlog) : vlog[i].name = n /\ vlog[i].mode = mode}

\* C11: a row has mode "broad" exactly when the exact lookup of its name
\* returned None and the broad lookup of its name returned a quote; every
\* other row has mode "exact".  So an unpriced row has mode "exact" and a
\* row of mode "broad" is priced.
C11_ModeLabel ==
    \A i \in 1..Len(rows) :
        LET r == rows[i]
            viaBroad == /\ \E e \in LogOf(r.name, "exact") :
                               vlog[e].kind = "return" /\ vlog[e].val = None
                        /\ \E b \in LogOf(r.name, "broad") :
                               vlog[b].kind = "return" /\ vlog[b].val # None
        IN  /\ r.mode \in {"exact", "broad"}
            /\ r.mode = "broad" <=> viaBroad
            /\ ~r.priced => r.mode = "exact"
            /\ r.mode = "broad" => r.priced

\* a run returned a row of mode "broad" and an unpriced row for which the
\* broad lookup was tried too
C11_Witness ==
    /\ vret.kind = "return"
    /\ Len(vlog) = 4
    /\ \E i \in 1..Len(rows) : rows[i].mode = "broad"
    /\ \E i \in 1..Len(rows) : ~rows[i].priced

LowerLeq(a, b) == ~StrLess(Lower(b), Lower(a))

\* C12: the rows are in ascending order of the lower-cased name, and the
\* lookups are issued in that order: the names of the lookups never step
\* back, and the k-th row is the row of the k-th name looked up.
C12_SortedOrder ==
    /\ \A i \in 1..(Len(rows) - 1) : LowerLeq(rows[i].name, rows[i + 1].name)
    /\ \A i \in 1..(Len(vlog) - 1) : LowerLeq(vlog[i].name, vlog[i + 1].name)
    /\ (lpc = "get" /\ vlog # <<>>) => LowerLeq(vlog[Len(vlog)].name, cur.name)
    /\ \A k \in 1..Len(rows) :
          \E i \in LogOf(rows[k].name, "exact") :
              Cardinality({j \in 1..i : vlog[j].mode = "exact"}) = k

\* a run over "A (x)" inserted before "a" returned the row of "a" first
C12_Witness ==
    /\ vret.kind = "return"
    /\ Len(counts) = 2
    /\ counts[1].name = <<"A", " ", "(", "x", ")">>
    /\ counts[2].name = <<"a">>
    /\ vret.rows[1].name = <<"a">>

\* the count mappings with the same name -> quantity pairs as c
SamePairs(c) ==
    {d \in CountMappings : {d[i] : i \in 1..Len(d)} = {c[i] : i \in 1..Len(c)}}

\* C13: the rows a run returns are in the order every mapping with the same
\* name -> quantity pairs is processed in, whatever its insertion order, so
\* with the same answers of the service the row sequence is the same.
C13_Reproducible ==
    vret.kind = "return" =>
        \A d \in SamePairs(counts) :
            SortedNames(d) = [i \in 1..Len(vret.rows) |-> vret.rows[i].name]

PoliteCount == Cardinality({i \in 1..Len(sleeps) : sleeps[i][1] = "polite"})
LastStatus == wire[Len(wire)].status

\* C19: a lookup whose request succeeded sleeps the politeness delay exactly
\* once, as its last sleep, after the response and before control returns,
\* also when it returns None; a lookup answered from the cache or by the
\* broad short-circuit does not sleep at all; no politeness delay is slept
\* while the request is still being attempted, nor when it failed.
C19_PolitenessDelay ==
    /\ lpc = "get" => PoliteCount = 0
    /\ (Ended /\ wire = <<>>) => sleeps = <<>>
    /\ (Ended /\ wire # <<>>) =>
          IF LastStatus = 200
          THEN /\ PoliteCount = 1
               /\ sleeps[Len(sleeps)] = <<"polite", DEFAULT_SLEEP>>
               /\ Len(sleeps) = Len(wire)
          ELSE PoliteCount = 0

\* a lookup returned None after a failed and a successful attempt, having
\* slept the backoff and then the politeness delay
C19_Witness ==
    /\ Ended
    /\ Statuses = <<500, 200>>
    /\ ret.kind = "return"
    /\ ret.val = None
    /\ sleeps = <<<<"backoff", 6>>, <<"polite", 5>>>>

\* C20: a successful response with an empty or a non-list body makes the
\* lookup return None and leaves None in its cache slot, which is then
\* present in the cache; a later lookup of the same mode and name returns
\* None with no request.  A non-empty list makes it return, and cache, the
\* quote built from the first entry.
C20_EmptyIsNoQuote ==
    /\ (Ended /\ wire # <<>> /\ LastStatus = 200) =>
          LET body == wire[Len(wire)].body
              key  == KeyOf(ret.mode, ret.name)
          IN  /\ body.kind \in {"empty", "nonlist"} =>
                    /\ ret.kind = "return"
                    /\ ret.val = None
                    /\ key \in DOMAIN cache
                    /\ cache[key] = None
              /\ body.kind = "list" =>
                    /\ ret.kind = "return"
                    /\ ret.val = [tag |-> "quote", cents |-> body.price, id |-> body.id,
                                  url |-> QueryOf(ret.mode, ret.name)]
                    /\ key \in DOMAIN cache
                    /\ cache[key] = ret.val
    /\ (Ended /\ ret.repeat /\ firstRet[<<ret.mode, ret.name>>] = None) =>
          /\ ret.kind = "return"
          /\ ret.val = None
          /\ gets = 0
          /\ wire = <<>>

\* a lookup returned None for a non-list body
C20_Witness ==
    /\ Ended
    /\ wire # <<>>
    /\ LastStatus = 200
    /\ wire[Len(wire)].body.kind = "nonlist"
    /\ ret.val = None
    /\ cache[KeyOf(ret.mode, ret.name)] = None

\* ------------------------------------------------------------------------
\* Inventory fetch: pagination, failure, correlation
\* ------------------------------------------------------------------------

\* response n was a success that reported more items and a non-empty cursor
MoreWithCursor(r) ==
    /\ r.status = 200
    /\ r.data.more_items = 1
    /\ r.data.last_assetid # None
    /\ r.data.last_assetid.s # ""

\* C14: request n+1 is issued if and only if response n reported more items
\* and a non-empty cursor; after the first successful response without the
\* flag, or with the flag but no usable cursor, the fetch has returned and no
\* further request exists; a two-page feed whose page 2 reports no further
\* items returns page 1's assets followed by page 2's after two requests.
C14_PaginationControl ==
    /\ \A n \in 1..Len(fresps) :
        /\ Len(freqs) > n => MoreWithCursor(fresps[n])
        /\ MoreWithCursor(fresps[n]) =>
              Len(freqs) > n \/ (fpc = "send" /\ n = Len(freqs))
        /\ (fresps[n].status = 200 /\ ~MoreWithCursor(fresps[n])) =>
              /\ n = Len(freqs)
              /\ fpc = "done"
              /\ fret.kind = "return"
    /\ ( /\ Len(fresps) = 2
         /\ fresps[1].status = 200
         /\ fresps[2].status = 200
         /\ fresps[2].data.more_items = 0 ) =>
            /\ fpc = "done"
            /\ Len(freqs) = 2
            /\ fret.kind = "return"
            /\ fret.assets =
                 PageAssets(fresps[1].data.assets, fresps[1].data.descriptions)
                 \o PageAssets(fresps[2].data.assets, fresps[2].data.descriptions)

\* a two-page feed has been fetched: three assets of page 1, two of page 2
C14_Witness ==
    /\ fpc = "done"
    /\ Len(fresps) = 2
    /\ MoreWithCursor(fresps[1])
    /\ fresps[2].status = 200
    /\ fresps[2].data.more_items = 0
    /\ Len(PageAssets(fresps[1].data.assets, fresps[1].data.descriptions)) = 3
    /\ Len(fret.assets) = 5

\* C15: the first request carries no cursor, every later request carries
\* the cursor of the response just before it, and a request is outstanding
\* only while the fetch waits for its response: all earlier responses have
\* been processed.
C15_CursorContinuation ==
    /\ Len(freqs) >= 1 => freqs[1] = None
    /\ \A n \in 2..Len(freqs) : freqs[n] = fresps[n - 1].data.last_assetid
    /\ Len(fresps) <= Len(freqs)
    /\ Len(freqs) <= Len(fresps) + 1
    /\ Len(freqs) = Len(fresps) + 1 <=> fpc = "wait"

\* a third request is out, after responses that gave two different cursors
C15_Witness ==
    /\ Len(freqs) = 3
    /\ fresps[1].data.last_assetid = Str("c1")
    /\ fresps[2].data.last_assetid = Str("c2")
    /\ freqs[3] = Str("c2")

\* C16: a page answered 403 ends the fetch with PermissionError, a page
\* answered with another status of the 4xx and 5xx ranges ends it with
\* HTTPError; the failed request is the last one (no retry, no further
\* page) and the fetch hands back no assets, earlier pages included.
C16_FetchFailure ==
    \A n \in 1..Len(fresps) :
        fresps[n].status \notin {0, 200} =>
            /\ n = Len(fresps)
            /\ n = Len(freqs)
            /\ fpc = "done"
            /\ fret.kind = "raise"
            /\ fret.exc = IF fresps[n].status = 403 THEN "PermissionError" ELSE "HTTPError"
            /\ fret.assets = <<>>

\* page 1 gave assets and a cursor, page 2 was answered 403
C16_Witness ==
    /\ Len(fresps) = 2
    /\ fresps[2].status = 403
    /\ fassets # <<>>
    /\ fret.kind = "raise"
    /\ fret.exc = "PermissionError"

\* the description has the ownership entry's (classid, instanceid) pair
SamePair(a, d) == a.classid = d.classid /\ a.instanceid = d.instanceid

\* the canonical market name when non-empty, else the fallback display
\* name, surrounding whitespace not counting
ClaimedName(d) ==
    IF Strip(d.market_hash_name) # <<>> THEN Strip(d.market_hash_name)
    ELSE Strip(d.market_name)

\* per ownership entry that has a description of its pair with a non-empty
\* display name, in page order: the names such descriptions give it
RECURSIVE ClaimedPage(_, _)
ClaimedPage(owned, descs) ==
    IF owned = <<>> THEN <<>>
    ELSE LET names == { ClaimedName(descs[j]) :
                          j \in { k \in 1..Len(descs) : SamePair(Head(owned), descs[k]) } }
                      \ {<<>>}
             rest == ClaimedPage(Tail(owned), descs)
         IN  IF names # {} THEN <<names>> \o rest ELSE rest

\* the same over the successful pages, in the order they were received
RECURSIVE ClaimedAll(_)
ClaimedAll(resps) ==
    IF resps = <<>> THEN <<>>
    ELSE (IF Head(resps).status = 200
          THEN ClaimedPage(Head(resps).data.assets, Head(resps).data.descriptions)
          ELSE <<>>) \o ClaimedAll(Tail(resps))

\* C17: the assets gathered are, in page order and within-page order, one
\* per ownership entry for which a description of the same page has the same
\* (classid, instanceid) pair and a non-empty display name, named by the
\* canonical market name when non-empty, else by the fallback display name;
\* every other entry is dropped.
C17_AssetCorrelation ==
    LET claimed == ClaimedAll(fresps)
    IN  /\ Len(fassets) = Len(claimed)
        /\ \A k \in 1..Len(fassets) :
              k <= Len(claimed) => fassets[k].name \in claimed[k]

\* ------------------------------------------------------------------------
\* Aggregation
\* ------------------------------------------------------------------------

RECURSIVE SumQuantities(_, _)
SumQuantities(c, keys) ==
    IF keys = {} THEN 0
    ELSE LET k == CHOOSE x \in keys : TRUE
         IN  c[k] + SumQuantities(c, keys \ {k})

\* the positions of the given list that count when names are taken as
\* they are given
NamedAt ==
    { i \in 1..Len(aggGiven) :
        /\ aggInclude \/ aggGiven[i].marketable # 0
        /\ aggGiven[i].name # <<>> }

\* C18 as claimed: the result maps each non-empty name, as the assets carry
\* it, to the number of counted assets carrying it.
C18_Original ==
    apc = "done" =>
        /\ DOMAIN agg = { aggGiven[i].name : i \in NamedAt }
        /\ \A n \in DOMAIN agg :
              /\ agg[n] = Cardinality({ i \in NamedAt : aggGiven[i].name = n })
              /\ agg[n] >= 1
        /\ SumQuantities(agg, DOMAIN agg) = Cardinality(NamedAt)
        /\ aggAssets = aggGiven

\* the positions of the given list that count: not filtered out by the
\* marketable flag, and carrying a name that is non-empty once stripped
CountedAt ==
    { i \in 1..Len(aggGiven) :
        /\ aggInclude \/ aggGiven[i].marketable # 0
        /\ Strip(aggGiven[i].name) # <<>> }

\* C18: names being taken with surrounding whitespace removed, the result
\* of count_by_name maps each non-empty name to the number of counted
\* assets carrying it (unmarketable ones not counted when
\* include_unmarketable is false); so every quantity is at least 1, the
\* quantities add up to the number of counted assets, a name without a
\* counted asset is not a key, and the list given is as it was.
C18_CountByName ==
    apc = "done" =>
        /\ DOMAIN agg = { Strip(aggGiven[i].name) : i \in CountedAt }
        /\ \A n \in DOMAIN agg :
              /\ agg[n] = Cardinality({ i \in CountedAt : Strip(aggGiven[i].name) = n })
              /\ agg[n] >= 1
        /\ SumQuantities(agg, DOMAIN agg) = Cardinality(CountedAt)
        /\ aggAssets = aggGiven

\* unmarketable assets excluded: of three assets named A, one of them
\* padded, the two marketable ones are counted
C18_Witness ==
    /\ apc = "done"
    /\ ~aggInclude
    /\ aggGiven = <<Asset(<<"A">>, 0), Asset(<<" ", "A">>, 1), Asset(<<"A">>, 1)>>
    /\ DOMAIN agg = { <<"A">> }
    /\ agg[<<"A">>] = 2

\* ------------------------------------------------------------------------
\* Error propagation out of sequential_value
\* ------------------------------------------------------------------------

\* the exception of the failed lookup leaves sequential_value as it is, the
\* failed lookup is the last one of the run, and neither rows nor a total
\* come back
PropagatesUnchanged ==
    /\ ret.kind = "raise"
    /\ vret.exc = ret.exc
    /\ vret.cause = ret.cause
    /\ vlog[Len(vlog)].kind = "raise"
    /\ \A i \in 1..(Len(vlog) - 1) : vlog[i].kind = "return"
    /\ vpc = "done"
    /\ lpc = "idle"
    /\ vret.rows = <<>>
    /\ vret.total = 0

\* C22: when a lookup raises while sequential_value prices some name, the
\* exception propagates unchanged, no later name is looked up, neither rows
\* nor a total are returned, and no report line of a name priced before the
\* failure has been printed.
C22_ErrorPropagation ==
    vret.kind = "raise" =>
        /\ PropagatesUnchanged
        /\ \A i \in 1..Len(stdout) : stdout[i].line \notin {"row", "source"}

\* ------------------------------------------------------------------------
\* Sequential execution and base names, on the events of a valuation run
\* ------------------------------------------------------------------------

\* the event at position i exists and is of kind k
Is(i, k) == i \in 1..Len(trace) /\ trace[i].e = k

\* position of a name in the order of the run
PosOf(name) == CHOOSE k \in 1..Len(order) : order[k] = name

\* C28: during a valuation run every HTTP request is answered before
\* anything else happens, so at most one is in flight; a retry attempt is
\* preceded by the end of the previous attempt of the same request and by
\* its delay (0.6 s or, after a 429, 1.2 s times the attempt number); a
\* successful response is followed by the politeness delay and the cache
\* write before the lookup ends; and a request of a lookup starts only after
\* the previous lookup has ended, which was of the same name or of the name
\* just before it in the order of the run.
C28_Sequential ==
    \A i \in 1..Len(trace) :
        /\ trace[i].e = "send" => Is(i + 1, "recv")
        /\ (trace[i].e = "send" /\ trace[i].attempt = 0) =>
              /\ Is(i - 1, "get")
              /\ trace[i - 1].query = trace[i].query
        /\ (trace[i].e = "send" /\ trace[i].attempt > 0) =>
              /\ Is(i - 1, "sleep")
              /\ Is(i - 2, "recv")
              /\ Is(i - 3, "send")
              /\ trace[i - 3].query = trace[i].query
              /\ trace[i - 3].attempt = trace[i].attempt - 1
              /\ trace[i - 2].status # 200
              /\ trace[i - 1].dur =
                    (IF trace[i - 2].status = 429 THEN 12 ELSE 6) * trace[i].attempt
        /\ (trace[i].e = "recv" /\ trace[i].status = 200) =>
              /\ Is(i + 1, "sleep")
              /\ trace[i + 1].kind = "polite"
              /\ trace[i + 1].dur = DEFAULT_SLEEP
              /\ Is(i + 2, "write")
              /\ Is(i + 3, "end")
              /\ trace[i + 3].kind = "return"
        /\ (trace[i].e = "get" /\ i > 1) =>
              /\ Is(i - 1, "end")
              /\ trace[i - 1].kind = "return"
              /\ PosOf(trace[i].name) - PosOf(trace[i - 1].name) \in {0, 1}
        /\ (trace[i].e = "get" /\ i = 1) => PosOf(trace[i].name) = 1

\* the second name's request follows a retried, then successful lookup of
\* the first: 500, backoff, 200, politeness delay, cache write, end
C28_Witness ==
    /\ Len(trace) >= 11
    /\ Is(3, "recv") /\ trace[3].status = 500
    /\ Is(4, "sleep") /\ trace[4].kind = "backoff"
    /\ Is(5, "send") /\ trace[5].attempt = 1
    /\ Is(6, "recv") /\ trace[6].status = 200
    /\ Is(9, "end") /\ trace[9].name = order[1]
    /\ Is(10, "get") /\ trace[10].name = order[2]
    /\ Is(11, "send")

\* the base the claim gives each name of SeqNames that has a trailing group
ClaimedBase ==
    [n \in {SeqNames.two, SeqNames.x, SeqNames.y} |->
        IF n = SeqNames.two THEN SeqNames.x ELSE <<"A">>]

\* requests made by broad lookups for the base b
BroadGets(b) ==
    { i \in 1..Len(trace) : trace[i].e = "get" /\ trace[i].mode = "broad" /\ trace[i].query = b }

\* C30: the broad lookup takes one trailing parenthesized group and the
\* whitespace before it off the name ("A (x) (y)" has base "A (x)"); a name
\* whose group is not at the end or is nested has no trailing group, so its
\* broad lookup ends without a request; the request and the cache slot use
\* the base, and two names with the same base cause at most one request for
\* that base in a run.
C30_BaseName ==
    /\ \A i \in 1..Len(trace) :
        /\ (trace[i].e = "get" /\ trace[i].mode = "broad") =>
              /\ trace[i].name \in DOMAIN ClaimedBase
              /\ trace[i].query = ClaimedBase[trace[i].name]
        /\ (trace[i].e = "end" /\ trace[i].mode = "broad" /\ trace[i].kind = "return"
              /\ ~trace[i].hit) =>
              /\ Is(i - 1, "write")
              /\ trace[i - 1].key =
                    <<"broad|">> \o (IF trace[i].name \in DOMAIN ClaimedBase
                                     THEN ClaimedBase[trace[i].name] ELSE trace[i].name)
        /\ (trace[i].e = "end" /\ trace[i].mode = "broad"
              /\ trace[i].name \notin DOMAIN ClaimedBase) =>
              /\ ~trace[i].hit
              /\ Is(i - 2, "end")
    /\ \A n \in DOMAIN ClaimedBase : Cardinality(BroadGets(ClaimedBase[n])) <= 1

\* the broad lookups of "A (x)", "A (x) (y)" and "A (y)" have all returned:
\* one request for "A", one for "A (x)", the third lookup answered from the
\* slot of "A"
C30_Witness ==
    /\ vpc = "done"
    /\ vret.kind = "return"
    /\ Cardinality(BroadGets(<<"A">>)) = 1
    /\ Cardinality(BroadGets(SeqNames.x)) = 1
    /\ \E i \in 1..Len(trace) :
          /\ trace[i].e = "end"
          /\ trace[i].mode = "broad"
          /\ trace[i].name = SeqNames.y
          /\ trace[i].hit

\* ------------------------------------------------------------------------
\* Construction and cache ownership
\* ------------------------------------------------------------------------

\* the api_key given is empty, or shorter than 8 characters once trimmed
TooShort == capikey = <<>> \/ Len(Strip(capikey)) < 8

\* C21: the constructor raises exactly when the credential is empty or has
\* fewer than 8 characters after trimming; then there is no client: no key
\* stored, no lookup made, no HTTP request issued.  Once a client exists its
\* credential is not looked at again: it stays constructed with the key it
\* stored, and no lookup ends with the constructor's error.
C21_ConstructorValidation ==
    /\ cstate # "none" => (cstate = "raised" <=> TooShort)
    /\ cstate = "raised" =>
          /\ ckey = <<>>
          /\ ncalls = 0
          /\ gets = 0
          /\ wire = <<>>
          /\ lpc = "idle"
    /\ ncalls > 0 => cstate = "ok" /\ ~TooShort
    /\ ret.kind = "raise" => ret.exc \in {"RuntimeError", "KeyError"}

\* a credential of 8 characters, 7 after trimming, has been rejected
C21_Witness ==
    /\ cstate = "raised"
    /\ Len(capikey) = 8
    /\ Len(Strip(capikey)) = 7

\* C29: each instance's cache holds exactly the slots its own lookups
\* wrote, and is empty at construction: a lookup on one instance neither
\* finds a slot written on the other nor changes the other's cache, so a
\* name looked up on both is requested on both.
C29_CacheOwnership ==
    /\ DOMAIN cache = { k \in DOMAIN cache \cup DOMAIN shelved : <<self, k>> \in filled }
    /\ DOMAIN shelved = { k \in DOMAIN cache \cup DOMAIN shelved : <<3 - self, k>> \in filled }
    /\ \A e \in filled : e[2] \in (IF e[1] = self THEN DOMAIN cache ELSE DOMAIN shelved)
    /\ (Ended /\ ret.kind = "return" /\ ~ret.hit /\ ret.mode = "exact") => gets = 1

\* exact("A") was looked up on both instances and requested on both: the
\* two caches hold different answers for it
C29_Witness ==
    /\ <<1, ExactKey(<<"A">>)>> \in filled
    /\ <<2, ExactKey(<<"A">>)>> \in filled
    /\ cache[ExactKey(<<"A">>)] # shelved[ExactKey(<<"A">>)]

\* ------------------------------------------------------------------------
\* CSV export
\* ------------------------------------------------------------------------

\* columns of a line of the file: delimiters outside quotes, plus one
RECURSIVE Delimiters(_, _)
Delimiters(line, quoted) ==
    IF line = <<>> THEN 0
    ELSE IF Head(line) = "\"" THEN Delimiters(Tail(line), ~quoted)
    ELSE (IF Head(line) = "," /\ ~quoted THEN 1 ELSE 0) + Delimiters(Tail(line), quoted)

Columns(line) == Delimiters(line, FALSE) + 1

IsDigit(ch) == ch \in {"0", "1", "2", "3", "4", "5", "6", "7", "8", "9"}

DigitVal(ch) ==
    CASE ch = "0" -> 0 [] ch = "1" -> 1 [] ch = "2" -> 2 [] ch = "3" -> 3 [] ch = "4" -> 4
      [] ch = "5" -> 5 [] ch = "6" -> 6 [] ch = "7" -> 7 [] ch = "8" -> 8 [] OTHER -> 9

\* the number a sequence of digits denotes
RECURSIVE DigitsVal(_)
DigitsVal(t) ==
    IF t = <<>> THEN 0 ELSE 10 * DigitsVal(SubSeq(t, 1, Len(t) - 1)) + DigitVal(t[Len(t)])

\* t is c cents written as dollars: the digits of c div 100 without
\* leading zeros, a point, and c mod 100 in exactly two digits
IsUsdOf(t, c) ==
    /\ Len(t) >= 4
    /\ t[Len(t) - 2] = "."
    /\ \A i \in 1..Len(t) : i # Len(t) - 2 => IsDigit(t[i])
    /\ (Len(t) > 4 => t[1] # "0")
    /\ DigitsVal(SubSeq(t, 1, Len(t) - 3)) = c \div 100
    /\ DigitsVal(SubSeq(t, Len(t) - 1, Len(t))) = c % 100

\* C25: the file starts with the header line, holds one record per row in
\* the order of rows, and ends with one record whose name column is TOTAL,
\* whose subtotal column is the grand total and whose other columns are
\* empty; every record and every line has the 7 columns of the header.
C25_CsvStructure ==
    wpc = "done" =>
        /\ Len(csvLines) = Len(csvRows) + 2
        /\ Len(csvRecs) = Len(csvLines)
        /\ csvLines[1] = <<"n", "a", "m", "e", ",", "q", "t", "y", ",", "u", "n", "i", "t", "_", "u", "s", "d", ",", "s", "u", "b", "t", "o", "t", "a", "l", "_", "u", "s", "d", ",", "p", "r", "i", "c", "e", "d", ",", "m", "o", "d", "e", ",", "l", "i", "s", "t", "i", "n", "g", "_", "i", "d">>
        /\ \A i \in 1..Len(csvLines) :
              /\ Len(csvRecs[i]) = 7
              /\ Columns(csvLines[i]) = 7
        /\ \A i \in 1..Len(csvRows) : csvRecs[i + 1][1] = csvRows[i].name
        /\ LET t == csvRecs[Len(csvRecs)]
           IN  /\ t[1] = <<"T", "O", "T", "A", "L">>
               /\ IsUsdOf(t[4], csvTotal)
               /\ \A j \in {2, 3, 5, 6, 7} : t[j] = <<>>

\* two rows have been exported, the first with a comma in its name
C25_Witness ==
    /\ wpc = "done"
    /\ Len(csvRows) = 2
    /\ csvRows[1].name = <<"a", ",", "b">>
    /\ csvRows[2].name # csvRows[1].name
    /\ Len(csvLines) = 4

\* the rows and total of the scenario have been exported
CsvScenario ==
    /\ wpc = "done"
    /\ csvRows = << [ name |-> <<"A", "K", "-", "4", "7", " ", "|", " ", "R", "e", "d", "l", "i", "n", "e">>, qty |-> 2,
                      unit_cents |-> [tag |-> "some", v |-> 1500], subtotal_cents |-> 3000,
                      priced |-> TRUE, mode |-> "exact", listing_id |-> "42",
                      url |-> <<"A", "K", "-", "4", "7", " ", "|", " ", "R", "e", "d", "l", "i", "n", "e">> ] >>
    /\ csvTotal = 3000

\* C26 as claimed: the scenario's row line is followed by the line
\* TOTAL,,,30.00,,  (six columns).
C26_Original ==
    CsvScenario =>
        /\ csvLines[2] = <<"A", "K", "-", "4", "7", " ", "|", " ", "R", "e", "d", "l", "i", "n", "e", ",", "2", ",", "1", "5", ".", "0", "0", ",", "3", "0", ".", "0", "0", ",", "y", "e", "s", ",", "e", "x", "a", "c", "t", ",", "4", "2">>
        /\ csvLines[3] = <<"T", "O", "T", "A", "L", ",", ",", ",", "3", "0", ".", "0", "0", ",", ",">>

\* C26: exporting the scenario's rows with total 3000 produces the line
\* AK-47 | Redline,2,15.00,30.00,yes,exact,42  followed by the line
\* TOTAL,,,30.00,,,  (seven columns, as the header has).
C26_Scenario ==
    CsvScenario =>
        /\ csvLines[2] = <<"A", "K", "-", "4", "7", " ", "|", " ", "R", "e", "d", "l", "i", "n", "e", ",", "2", ",", "1", "5", ".", "0", "0", ",", "3", "0", ".", "0", "0", ",", "y", "e", "s", ",", "e", "x", "a", "c", "t", ",", "4", "2">>
        /\ csvLines[3] = <<"T", "O", "T", "A", "L", ",", ",", ",", "3", "0", ".", "0", "0", ",", ",", ",">>

\* the scenario has been exported: header, one row line, the TOTAL line
C26_Witness == CsvScenario /\ Len(csvLines) = 3

\* C27: in the record of every row, unit_usd and subtotal_usd are the
\* cents written as (cents div 100).(cents mod 100 in two digits), an absent
\* unit price being written 0.00; priced is yes or no; mode and listing_id
\* are the row's, listing_id empty for an unpriced row; the cents of rows and
\* total are integers.
C27_FieldRendering ==
    wpc = "done" =>
        /\ csvTotal \in Nat
        /\ \A i \in 1..Len(csvRows) :
              LET r == csvRows[i]
                  rec == csvRecs[i + 1]
              IN  /\ r.subtotal_cents \in Nat
                  /\ r.unit_cents # None => r.unit_cents.v \in Nat
                  /\ IsUsdOf(rec[3], IF r.unit_cents = None THEN 0 ELSE r.unit_cents.v)
                  /\ r.unit_cents = None => rec[3] = <<"0", ".", "0", "0">>
                  /\ IsUsdOf(rec[4], r.subtotal_cents)
                  /\ rec[5] = (IF r.priced THEN <<"y", "e", "s">> ELSE <<"n", "o">>)
                  /\ rec[6] = Chars(r.mode)
                  /\ rec[7] = Chars(r.listing_id)
                  /\ ~r.priced => rec[7] = <<>>

\* an unpriced row and a row priced at 5 cents have been exported: 0.00 and
\* 0.05 as unit, 0.00 and 0.10 as subtotal
C27_Witness ==
    /\ wpc = "done"
    /\ Len(csvRows) = 2
    /\ csvRows[1].unit_cents = None
    /\ csvRecs[2][3] = <<"0", ".", "0", "0">>
    /\ csvRows[2].unit_cents = [tag |-> "some", v |-> 5]
    /\ csvRecs[3][3] = <<"0", ".", "0", "5">>
    /\ csvRecs[3][4] = <<"0", ".", "1", "0">>

\* ------------------------------------------------------------------------
\* Exit codes of the command
\* ------------------------------------------------------------------------

\* the run ended on a transport error: the inventory endpoint answered with a
\* status that is neither a success nor 403, or a pricing request used up its
\* attempts
EndedOnTransportError ==
    /\ mpc = "exited"
    /\ \/ /\ fret.kind = "raise"
          /\ fresps # <<>>
          /\ fresps[Len(fresps)].status >= 400
          /\ fresps[Len(fresps)].status # 403
       \/ /\ vret.kind = "raise"
          /\ vret.exc = "RuntimeError"

\* C23: a run that ends on a transport error (a failed inventory response
\* other than 403, or a pricing request whose retries are exhausted) exits
\* with code 4
C23_TransportExit ==
    EndedOnTransportError => mexit.code = 4

\* the run ended on a configuration error: no credential, or a credential
\* shorter than the minimum length
EndedOnConfigurationError ==
    /\ mpc = "exited"
    /\ \/ token = <<>>
       \/ Len(Strip(token)) < MinKeyLen

\* C24: a run that ends on a configuration error (credential missing, or
\* shorter than the minimum length) exits with code 2, and no inventory or
\* pricing request has been issued
C24_ConfigurationExit ==
    EndedOnConfigurationError =>
        /\ mexit.code = 2
        /\ freqs = <<>>
        /\ wire = <<>>
        /\ gets = 0

\* ------------------------------------------------------------------------
\* Provenance of cached answers
\* ------------------------------------------------------------------------

\* a listings request for q was issued on this client and was answered with
\* an empty or non-list body
AnsweredWithNoListing(q) ==
    \E i \in 1..(Len(trace) - 1) :
        /\ trace[i].e = "send"
        /\ trace[i].query = q
        /\ trace[i + 1].e = "recv"
        /\ trace[i + 1].status = 200
        /\ trace[i + 1].body \in {"empty", "nonlist"}

\* C31: when lowest_listing_broad of a name with a trailing parenthesised
\* group returns None, a listings request for the base of that name was
\* issued on this client, at that call or earlier, and was answered with an
\* empty or non-list response
C31_BroadProvenance ==
    ( /\ lpc = "idle"
      /\ ret.kind = "return"
      /\ ret.mode = "broad"
      /\ HasTrailingGroup(ret.name)
      /\ ret.val = None )
    => AnsweredWithNoListing(BaseName(ret.name))

\* ------------------------------------------------------------------------
\* Independence of the exact and the broad slots
\* ------------------------------------------------------------------------

\* every cache write recorded so far was made by a lookup into the slot of
\* its own key, and every answer served from the cache was served to a lookup
\* of the mode that wrote the slot
OwnSlotsOnly ==
    /\ \A i \in 1..Len(trace) :
          trace[i].e = "write" =>
              /\ Is(i + 1, "end")
              /\ trace[i].key = KeyOf(trace[i + 1].mode, trace[i + 1].name)
    /\ \A j \in 1..Len(trace) :
          (trace[j].e = "end" /\ trace[j].hit) =>
              \E i \in 1..(j - 1) :
                  /\ trace[i].e = "write"
                  /\ trace[i].key = KeyOf(trace[j].mode, trace[j].name)
                  /\ Is(i + 1, "end")
                  /\ trace[i + 1].mode = trace[j].mode

\* one step of a lookup leaves every slot but its own as it was; an answer
\* from the cache is the content of its own slot, and an answer that was
\* computed is what its own slot holds afterwards
OwnSlotStep ==
    LET own == IF lpc' = "get" THEN KeyOf(cur'.mode, cur'.name)
               ELSE KeyOf(ret'.mode, ret'.name)
    IN  /\ \A k \in ((DOMAIN cache) \cup (DOMAIN cache')) \ {own} :
              k \in DOMAIN cache /\ k \in DOMAIN cache' /\ cache'[k] = cache[k]
        /\ (lpc' = "idle" /\ ret'.kind = "return" /\ ret'.hit) =>
              own \in DOMAIN cache /\ ret'.val = cache[own] /\ cache' = cache
        /\ (lpc' = "idle" /\ ret'.kind = "return" /\ ~ret'.hit) =>
              own \in DOMAIN cache' /\ ret'.val = cache'[own]

\* C32: exact and broad lookups are cached independently: an entry written
\* by an exact lookup never answers a broad lookup and the other way round; a
\* lookup reads and writes only the slot of its own key (mode tag and name or
\* base), and leaves every other slot unchanged
C32_IndependentCaches == []OwnSlotsOnly /\ [][OwnSlotStep]_vars

\* an exact lookup of "A" stored None, and the broad lookup of "A (x)", whose
\* base is "A", then issued its own request and stored a quote
C32_Witness ==
    /\ lpc = "idle"
    /\ ret.kind = "return"
    /\ ret.mode = "broad"
    /\ ret.name = <<"A", " ", "(", "x", ")">>
    /\ ~ret.hit
    /\ <<"exact|", "A">> \in DOMAIN cache
    /\ cache[<<"exact|", "A">>] = None
    /\ cache[<<"broad|", "A">>] # None

\* ------------------------------------------------------------------------
\* Failures and the cache
\* ------------------------------------------------------------------------

\* the lookup whose end is recorded at position j raised
RaisedAt(j) == trace[j].e = "end" /\ trace[j].kind = "raise"

\* the end recorded at position k is that of a lookup of the same mode and
\* name as the one ended at j
SameLookup(j, k) ==
    /\ trace[k].e = "end"
    /\ trace[k].mode = trace[j].mode
    /\ trace[k].name = trace[j].name

RetriedUntilWritten ==
    /\ (Ended /\ ret.kind = "raise") => KeyOf(ret.mode, ret.name) \notin DOMAIN cache
    /\ \A j \in 1..Len(trace) : \A k \in (j + 1)..Len(trace) :
          (RaisedAt(j) /\ SameLookup(j, k) /\ trace[k].hit) =>
              \E i \in (j + 1)..(k - 1) :
                  /\ trace[i].e = "write"
                  /\ trace[i].key = KeyOf(trace[j].mode, trace[j].name)

\* the cache is the same from the call of a lookup to the exception that
\* leaves it, and the next lookup, when it is of the same mode and name,
\* enters the request loop
RaiseLeavesCache ==
    /\ lpc' = "get" => cache' = cache
    /\ (lpc = "get" /\ lpc' = "idle" /\ ret'.kind = "raise") => cache' = cache
    /\ (lpc = "idle" /\ ret.kind = "raise" /\ lpc' = "idle" /\ ret'.kind # "none") =>
          (ret'.mode # ret.mode \/ ret'.name # ret.name)

AtMostTwoRequests ==
    /\ lpc = "get" => (Len(wire) = attempt /\ Len(wire) < 2)
    /\ (Ended /\ gets = 1) =>
          /\ Len(wire) \in 1..2
          /\ ret.kind \in {"return", "raise"}

\* C34: whatever the responses are (success, 429, 401/403, 5xx, timeouts),
\* one call of _get issues at least 1 and at most 2 HTTP requests and then
\* returns or raises; it always ends, also when every response is 429
C34_BoundedRequests == []AtMostTwoRequests /\ (lpc = "get" ~> lpc = "idle")

\* both requests of a lookup were answered 429, and the lookup raised
C34_Witness ==
    /\ Ended
    /\ gets = 1
    /\ ret.kind = "raise"
    /\ Len(wire) = 2
    /\ wire[1].status = 429
    /\ wire[2].status = 429

\* ------------------------------------------------------------------------
\* Backoff waits of a request that uses up its attempts
\* ------------------------------------------------------------------------

\* the lookup that ended called _get, every attempt failed generically (no
\* 429 among the answers), and RuntimeError was raised
ExhaustedGeneric ==
    /\ Ended
    /\ gets = 1
    /\ ret.kind = "raise"
    /\ ret.exc = "RuntimeError"
    /\ Len(wire) = 2
    /\ \A i \in 1..Len(wire) : wire[i].status # 429

\* C35: a backoff wait occurs only between attempts: a request that uses up
\* its 2 attempts on generic failures has waited exactly one backoff delay,
\* the base delay, and none after the last attempt
C35_BackoffBetweenAttempts ==
    ExhaustedGeneric => sleeps = << <<"backoff", BackoffDelay(0)>> >>

\* ------------------------------------------------------------------------
\* The Authorization header
\* ------------------------------------------------------------------------

\* C36: every request of a constructed client carries an Authorization header
\* whose value is the key the client stores, and that key is non-empty and at
\* least 8 characters long, also when the constructor removed "Bearer " from
\* the credential it was given
C36_AuthorizationHeader ==
    cstate = "ok" =>
        /\ ckey # <<>>
        /\ Len(ckey) >= MinKeyLen
        /\ \A i \in 1..Len(trace) :
              trace[i].e = "send" =>
                  /\ trace[i].auth = ckey
                  /\ Len(trace[i].auth) >= MinKeyLen

\* ------------------------------------------------------------------------
\* Termination of fetch_full_inventory
\* ------------------------------------------------------------------------

\* C37: the number of page requests of one fetch is bounded, whatever the
\* inventory endpoint answers: a fetch that has received MaxPages pages has
\* ended, also when every page reported more items with a non-empty cursor
\* or repeated the cursor of the page before
C37_FetchTerminates ==
    Len(fresps) = MaxPages => fpc = "done"

\* ------------------------------------------------------------------------
\* A client shared by concurrent callers
\* ------------------------------------------------------------------------

\* two callers are inside _get for the same key of the same client
BothMissed ==
    /\ tpc[1] = "get"
    /\ tpc[2] = "get"
    /\ ClientOf(1) = ClientOf(2)
    /\ tcur[1].key = tcur[2].key

\* one slot of one client has been written twice
WrittenTwice ==
    \E i \in 1..Len(tlog) : \E j \in (i + 1)..Len(tlog) :
        /\ tlog[i].c = tlog[j].c
        /\ tlog[i].key = tlog[j].key

\* C38: when each of two concurrent callers owns its client, no two lookups
\* are inside the request for the same slot of one client at once and no slot
\* is written twice; with one client shared by both, two callers can both
\* miss the cache for the same name, both issue a request and both write the
\* slot, with different quotes (the state C38_Witness)
C38_SharedClientUnsafe ==
    ~tshared => (~BothMissed /\ ~WrittenTwice)

\* on the shared client the two callers each issued a request for "A" and
\* each wrote "exact|A", with different quotes
C38_Witness ==
    /\ tshared
    /\ Len(tlog) = 2
    /\ tlog[1].t # tlog[2].t
    /\ tlog[1].c = tlog[2].c
    /\ tlog[1].key = <<"exact|", "A">>
    /\ tlog[2].key = <<"exact|", "A">>
    /\ tlog[1].requests >= 1
    /\ tlog[2].requests >= 1
    /\ tlog[1].val # None
    /\ tlog[2].val # None
    /\ tlog[1].val # tlog[2].val
    /\ tcache[1][<<"exact|", "A">>] = tlog[2].val

\* ------------------------------------------------------------------------
\* sequential_value on an empty mapping
\* ------------------------------------------------------------------------

\* the run on an empty mapping has returned total 0 and no rows, and has
\* invoked no lookup
EmptyRunReturned ==
    (vpc = "done" /\ counts = <<>>) =>
        /\ vret.kind = "return"
        /\ vret.total = 0
        /\ vret.rows = <<>>
        /\ vlog = <<>>
        /\ lpc = "idle"

\* the step that runs sequential_value on an empty mapping ends the run and
\* leaves the client as it was: no lookup, no request, the same cache
EmptyRunStep ==
    (vpc = "none" /\ vpc' # "none" /\ counts' = <<>>) =>
        /\ vpc' = "done"
        /\ cache' = cache
        /\ gets' = gets
        /\ wire' = wire
        /\ ret' = ret
        /\ ncalls' = ncalls
        /\ lpc' = "idle"

\* C39: sequential_value on an empty count mapping returns total 0 and an
\* empty row list without invoking lowest_listing_exact or
\* lowest_listing_broad, issues no request, and leaves the cache unchanged
C39_EmptyMapping == []EmptyRunReturned /\ [][EmptyRunStep]_vars

\* the run on an empty mapping has returned, on a client whose cache holds
\* entries of earlier lookups
C39_Witness ==
    /\ vpc = "done"
    /\ counts = <<>>
    /\ vret.kind = "return"
    /\ <<"exact|", "A">> \in DOMAIN cache
    /\ <<"broad|", "A">> \in DOMAIN cache
    /\ cache[<<"broad|", "A">>] # None

\* ------------------------------------------------------------------------
\* Health gating of the bot
\* ------------------------------------------------------------------------

\* what GET /ready and GET /health would answer now
ReadyCode == StatusCode(ReadyOk(hstatus))
HealthCode == StatusCode(HealthOk(hstatus, hlatency))

\* the last answer has the code the claim gives for the state it reports
AnswerGated ==
    hresp.kind = "response" =>
        /\ hresp.code \in {200, 503}
        /\ hresp.path = "/ready" => (hresp.code = 200 <=> hresp.status = "ready")
        /\ hresp.path = "/health" =>
              (hresp.code = 200 <=> (hresp.status = "ready" /\ hresp.latency_ms # None))
        /\ hresp.status = "connected" => hraised

\* C40: whatever the order of on_ready, on_resumed and on_disconnect, /ready
\* answers 200 exactly when the status is "ready" and /health exactly when
\* the status is "ready" and a numeric latency is recorded, so /health 200
\* implies /ready 200; before the first on_ready or on_resumed and after an
\* on_disconnect both answer 503; and no answer reports the status
\* "connected" unless an on_ready was left by an exception
C40_HealthGating ==
    /\ AnswerGated
    /\ HealthCode = 200 => ReadyCode = 200
    /\ (LoopFree /\ hlast \in {"none", "on_disconnect"}) =>
          (ReadyCode = 503 /\ HealthCode = 503)
    /\ (hstatus = "ready" /\ hlatency = None) => (ReadyCode = 200 /\ HealthCode = 503)

\* after an on_ready that recorded a latency and a later on_resumed, /health
\* was answered 200
C40_Witness ==
    /\ hresp.kind = "response"
    /\ hresp.path = "/health"
    /\ hresp.code = 200
    /\ hresp.latency_ms = Some(42)
    /\ hlast = "on_resumed"
    /\ ~hraised

====
